---- MODULE Spec2Model ----
(***************************************************************************)
(* The file-resumable podcast pipeline: fetch (download-metadata.ts),      *)
(* transcribe (the budgeted script and the older unbudgeted-per-directory  *)
(* script), label (label-speakers.ts), Q&A generation and persistence      *)
(* (index.ts).  Each script is one run of a single process; runs never     *)
(* overlap.  The data root and the database are the shared state.          *)
(***************************************************************************)
EXTENDS Integers, Sequences, FiniteSets, TLC

\* ------------------------------------------------------------------ bounds
\* largest budget argument (process.argv[2]) tried
MaxBudget == 3
\* cap on the total number of failure-log lines ever appended
MaxLogLines == 1
\* longest transcript handed to identifySpeakers on its own
MaxSegs == 2
\* longest timestamp string enumerated, and longest transcript array enumerated
MaxTsLen == 4
MaxEntries == 2
\* writes cut short by a kill, over a whole behaviour
MaxKills == 1
\* longest feed title enumerated
MaxTitleLen == 3
\* latest whole second a diarization segment starts at (100 minutes)
MaxSeconds == 6000

\* ------------------------------------------------------- the remote catalog
\* Episodes the search provider can return.  Episode 3 is episode 1 seen
\* again under a retitled feed: same id, another podcast directory.
Episodes == {1, 2, 3}
EpDir == <<"feed_a", "feed_a", "feed_b">>
EpId == <<101, 102, 101>>

\* readdirSync(dataDir): the podcast directories and one stray plain file
RootEntries == <<"feed_a", "notes", "feed_b">>
PodcastDirNames == {"feed_a", "feed_b"}

\* the same audio always diarizes the same way; episode 2 may be a silent one
SilentChoices == {{}, {2}}

\* the language model names every speaker, or cannot tell who "Speaker 1" is
OmittedChoices == {{}, {"Speaker 1"}}

\* the worlds the file stages are run in: <<silent, omitted>>
Worlds == {<<{}, {}>>, <<{2}, {"Speaker 1"}>>}

\* what a metadata file can hold: the provider's full record, a record without
\* datePublished, a record without title, or text that is no JSON
MetaShapes == {"full", "noDate", "noTitle", "corrupt"}
FullShape == [e \in Episodes |-> "full"]

\* the value of vInput and vResult while no function is under test
NoCall == [k |-> "none"]

Kinds == {"meta", "audio", "transcript", "labeled", "qa"}
FetchLog == "failed_downloads.txt"
TranscribeLog == "failed_transcriptions.txt"
LabelLog == "failed_labeling.txt"
Logs == {FetchLog, TranscribeLog, LabelLog}

UnknownSpeaker == "Unknown Speaker"

\* a JSON artifact: absent, or present with its parsed content
NoFile == [present |-> FALSE, data |-> <<>>]
File(d) == [present |-> TRUE, data |-> d]

VARIABLES
  meta,            \* {id}.json present, per episode
  audio,           \* {id}.mp3 present, per episode
  transcript,      \* {id}_transcript.json, per episode
  labeled,         \* {id}_transcript_labeled.json, per episode
  qa,              \* {id}_qa_pairs.json present, per episode
  failLog,         \* lines per failure log and episode named in the line
  dbEpisodes,      \* episodes table: externalId of each row, row id = index
  dbSegments,      \* episode_timestamps table rows
  stage,           \* the script that is running, or "idle"
  pc,              \* "idle", "running", "done" (main returned, process not yet gone)
  numPodcasts,     \* transcription budget of the run
  processedCount,  \* transcription main: let processedCount
  currentIndex,    \* transcription main: let currentIndex
  queue,           \* items the running loop still has to process
  invoked,         \* episodes whose remote call was issued in this run
  threw,           \* episodes whose remote call failed in this run
  written,         \* <<kind, episode>> written (or row inserted) in this run
  deleted,         \* the episode whose labeled transcript the operator deleted, or 0
  silent,          \* episodes whose audio holds no speech: the service returns no segments
  omitted,         \* speaker tokens the language model leaves out of its answer
  shape,           \* what each episode's metadata file holds, per episode
  vInput,          \* the argument of the function under test, or NoCall
  vResult,         \* what the function under test returned, or NoCall
  attempts,        \* remote calls issued per episode in this run
  sinceDelay,      \* remote calls issued in this run since the last delay (2 = two or more)
  missing,         \* environment variables that are not set
  partial,         \* <<kind, episode>> of artifacts a killed write left truncated
  inFlight         \* remote calls issued and not yet settled

store == <<meta, audio, transcript, labeled, qa, failLog>>
db == <<dbEpisodes, dbSegments>>
ctl == <<stage, pc, numPodcasts, processedCount, currentIndex, queue>>
hist == <<invoked, threw, written, attempts, sinceDelay>>
world == <<silent, omitted, shape, missing, inFlight>>
test == <<vInput, vResult>>
env == <<deleted, silent, omitted, shape, vInput, vResult, missing, partial, inFlight>>
vars == <<meta, audio, transcript, labeled, qa, failLog, dbEpisodes, dbSegments,
          stage, pc, numPodcasts, processedCount, currentIndex, queue,
          invoked, threw, written, deleted, silent, omitted, shape, vInput, vResult,
          attempts, sinceDelay, missing, partial, inFlight>>

\* no function is under test
AtRest == vInput = NoCall /\ vResult = NoCall

\* every credential is set, no write was ever cut short, no call is pending
Intact == missing = {} /\ partial = {} /\ inFlight = 0

NoAttempts == [e \in Episodes |-> 0]

\* ----------------------------------------------------------------- helpers
RECURSIVE SumOver(_, _)
SumOver(f, S) ==
  IF S = {} THEN 0
  ELSE LET x == CHOOSE y \in S : TRUE IN f[x] + SumOver(f, S \ {x})

LinesIn(fl, log) == SumOver(fl[log], Episodes)
TotalLines(fl) == LinesIn(fl, FetchLog) + LinesIn(fl, TranscribeLog) + LinesIn(fl, LabelLog)

\* fs.appendFileSync(failedPath, line naming the item)
AppendLine(fl, log, e) == [fl EXCEPT ![log][e] = @ + 1]

\* episodes in ascending file-name order restricted to a set
RECURSIVE SortedSeq(_)
SortedSeq(S) ==
  IF S = {} THEN <<>>
  ELSE LET m == CHOOSE x \in S : \A y \in S : x <= y
       IN <<m>> \o SortedSeq(S \ {m})

\* mkdirSync: a podcast directory exists once a fetch run has saved into it
DirExists(m, d) == \E e \in Episodes : EpDir[e] = d /\ m[e]

IsDirectory(x) == x \in PodcastDirNames

EntryExists(m, x) == IF IsDirectory(x) THEN DirExists(m, x) ELSE TRUE

\* a listing that names every entry twice
RootListingTwice(m) == SelectSeq(RootEntries \o RootEntries, LAMBDA x : EntryExists(m, x))

\* readdirSync(dataDir)
RootListing(m) == SelectSeq(RootEntries, LAMBDA x : EntryExists(m, x))

\* the same listing, each entry named by its position in RootEntries
RootPositions(m) ==
  SelectSeq([i \in 1..Len(RootEntries) |-> i], LAMBDA i : EntryExists(m, RootEntries[i]))

\* the environment variables the scripts read at their top level
Credentials ==
  {"PODCAST_INDEX_API_KEY", "PODCAST_INDEX_API_SECRET", "REPLICATE_API_KEY", "GEMINI_API_KEY"}

Scripts == {"fetch", "transcribe", "transcribeOld", "label", "qa"}

RequiredBy(script) ==
  CASE script = "fetch" -> {"PODCAST_INDEX_API_KEY", "PODCAST_INDEX_API_SECRET"}
    [] script \in {"transcribe", "transcribeOld"} -> {"REPLICATE_API_KEY"}
    [] script \in {"label", "qa"} -> {"GEMINI_API_KEY"}
    [] OTHER -> {}

CredentialsPresentAlways(script) == TRUE

\* the check in front of everything else: if (!apiKey) { ...; process.exit(1) }
CredentialsPresent(script) == RequiredBy(script) \cap missing = {}

\* a script started without its credential: process.exit(1) at the top level
MissingCredentialExit ==
  /\ pc = "idle"
  /\ \E script \in Scripts :
       /\ ~CredentialsPresent(script)
       /\ stage' = script
  /\ pc' = "failed"
  /\ UNCHANGED <<store, db, numPodcasts, processedCount, currentIndex, queue, hist, env>>

\* the failed process is gone
FailedGone ==
  /\ pc = "failed"
  /\ stage' = "idle"
  /\ pc' = "idle"
  /\ UNCHANGED <<store, db, numPodcasts, processedCount, currentIndex, queue, hist, env>>

\* remote calls since the last delay, counted up to two
AfterCalls(since, n) == IF since + n >= 2 THEN 2 ELSE since + n

Init ==
  /\ meta = [e \in Episodes |-> FALSE]
  /\ audio = [e \in Episodes |-> FALSE]
  /\ transcript = [e \in Episodes |-> NoFile]
  /\ labeled = [e \in Episodes |-> NoFile]
  /\ qa = [e \in Episodes |-> FALSE]
  /\ failLog = [l \in Logs |-> [e \in Episodes |-> 0]]
  /\ dbEpisodes = <<>>
  /\ dbSegments = <<>>
  /\ stage = "idle"
  /\ pc = "idle"
  /\ numPodcasts = 0
  /\ processedCount = 0
  /\ currentIndex = 0
  /\ queue = <<>>
  /\ invoked = {}
  /\ threw = {}
  /\ written = {}
  /\ attempts = NoAttempts
  /\ sinceDelay = 0
  /\ deleted = 0
  /\ \E w \in Worlds : silent = w[1] /\ omitted = w[2]
  /\ shape = FullShape
  /\ AtRest
  /\ Intact

\* main() has returned and the process ends: nothing of the run survives but
\* the data root and the database
Finish ==
  /\ pc = "done"
  /\ stage' = "idle"
  /\ pc' = "idle"
  /\ numPodcasts' = 0
  /\ processedCount' = 0
  /\ currentIndex' = 0
  /\ queue' = <<>>
  /\ invoked' = {}
  /\ threw' = {}
  /\ written' = {}
  /\ attempts' = NoAttempts
  /\ sinceDelay' = 0
  /\ UNCHANGED <<store, db, env>>

\* ------------------------------------------------------------------- fetch
\* download-metadata.ts main: the search returns some episodes of the catalog
FetchStart ==
  /\ pc = "idle"
  /\ CredentialsPresent("fetch")
  /\ \E S \in SUBSET Episodes :
       /\ S # {}
       /\ queue' = SortedSeq(S)
  /\ stage' = "fetch"
  /\ pc' = "running"
  /\ UNCHANGED <<store, db, numPodcasts, processedCount, currentIndex, hist, env>>

\* downloadEpisode: skip when audio and metadata both exist
AlreadyDownloaded(m, a, e) == a[e] /\ m[e]

\* a save that does not look whether the file exists
MetadataSavedAlways(m, sh, e) == [sh EXCEPT ![e] = "full"]

\* what the metadata files hold after "Save metadata if it doesn't exist":
\* JSON.stringify(episode) is the provider's full record
MetadataSaved(m, sh, e) == IF m[e] THEN sh ELSE [sh EXCEPT ![e] = "full"]

\* downloadEpisode for the head of the loop; ok = the audio GET succeeded
DownloadEpisode ==
  /\ stage = "fetch" /\ pc = "running" /\ queue # <<>>
  /\ LET e == Head(queue) IN
     IF AlreadyDownloaded(meta, audio, e)
     THEN UNCHANGED <<store, invoked, threw, written, attempts, shape>>
     ELSE
       \* metadata is saved first, when it does not exist
       /\ meta' = [meta EXCEPT ![e] = TRUE]
       /\ shape' = MetadataSaved(meta, shape, e)
       /\ IF audio[e]
          THEN UNCHANGED <<audio, failLog, invoked, threw, attempts>>
               /\ written' = written \cup (IF meta[e] THEN {} ELSE {<<"meta", e>>})
          ELSE \E ok \in BOOLEAN :
               /\ invoked' = invoked \cup {e}
               /\ attempts' = [attempts EXCEPT ![e] = @ + 1]
               /\ IF ok
                  THEN /\ audio' = [audio EXCEPT ![e] = TRUE]
                       /\ written' = written \cup {<<"audio", e>>}
                              \cup (IF meta[e] THEN {} ELSE {<<"meta", e>>})
                       /\ UNCHANGED <<failLog, threw>>
                  ELSE /\ TotalLines(failLog) < MaxLogLines
                       /\ failLog' = AppendLine(failLog, FetchLog, e)
                       /\ threw' = threw \cup {e}
                       /\ written' = written \cup (IF meta[e] THEN {} ELSE {<<"meta", e>>})
                       /\ UNCHANGED audio
       /\ UNCHANGED <<transcript, labeled, qa>>
  \* processEpisodes: the one-second delay follows every downloadEpisode
  /\ sinceDelay' = 0
  /\ queue' = Tail(queue)
  /\ UNCHANGED <<db, stage, pc, numPodcasts, processedCount, currentIndex, deleted, silent,
                 omitted, test, missing, partial, inFlight>>

\* processEpisodes: the for loop is exhausted
FetchExit ==
  /\ stage = "fetch" /\ pc = "running" /\ queue = <<>>
  /\ pc' = "done"
  /\ UNCHANGED <<store, db, stage, numPodcasts, processedCount, currentIndex, queue,
                 hist, env>>

\* ------------------------------------------------------------ transcription
\* how a call of the diarization service ends: an error (or a response
\* without segments), or a response with a segment list
TranscribeOutcomes == {"throw", "ok"}

\* transcribeAudio's result: the speakers of the segments, "Speaker {n}"
Segments(e) ==
  IF e \in silent THEN <<>>
  ELSE <<"Speaker 0", "Speaker 1", "Speaker 0">>

\* the .json files of a podcast directory in name order:
\* {id}.json, {id}_qa_pairs.json, {id}_transcript.json, {id}_transcript_labeled.json
EpisodeFiles(m, tr, lb, q, e) ==
  (IF m[e] THEN <<[ep |-> e, kind |-> "meta"]>> ELSE <<>>)
  \o (IF q[e] THEN <<[ep |-> e, kind |-> "qa"]>> ELSE <<>>)
  \o (IF tr[e].present THEN <<[ep |-> e, kind |-> "transcript"]>> ELSE <<>>)
  \o (IF lb[e].present THEN <<[ep |-> e, kind |-> "labeled"]>> ELSE <<>>)

RECURSIVE ListFiles(_, _, _, _, _)
ListFiles(m, tr, lb, q, eps) ==
  IF eps = <<>> THEN <<>>
  ELSE EpisodeFiles(m, tr, lb, q, Head(eps)) \o ListFiles(m, tr, lb, q, Tail(eps))

EpisodesOf(d) == SortedSeq({e \in Episodes : EpDir[e] = d})

\* readdirSync(directory), the .json entries
DirFiles(m, tr, lb, q, d) == ListFiles(m, tr, lb, q, EpisodesOf(d))

\* the metadataFiles filter of the budgeted script
IsMetadataFile(f) ==
  /\ f.kind \in {"meta", "qa", "transcript", "labeled"}   \* endsWith(".json")
  /\ f.kind # "transcript"                                \* !endsWith("_transcript.json")
  /\ f.kind # "labeled"                                   \* !endsWith("_transcript_labeled.json")

\* the metadataFiles filter of the older script
IsMetadataFileOld(f) ==
  /\ f.kind \in {"meta", "qa", "transcript", "labeled"}
  /\ f.kind # "transcript"

\* a check that finds an enclosure URL in whatever parses
HasEnclosureUrlAny(f) == TRUE

\* loadEpisodeMetadata(...)?.enclosureUrl: only episode metadata carries one;
\* a Q&A or labeled-transcript file parses to an array
HasEnclosureUrl(f) == f.kind = "meta"

TranscriptOwnerFirst(f) == 1

\* saveTranscript: {name of the metadata file}_transcript.json is the
\* transcript of that file's episode
TranscriptOwner(f) == f.ep

HasExistingTranscriptNever(tr, f) == FALSE

HasExistingTranscriptAlways(tr, f) == TRUE

HasExistingTranscript(tr, f) == tr[f.ep].present

\* processPodcastDirectory of the budgeted script over the remaining files.
\* st carries the directory's artifacts, the failure log and the run's record;
\* st.processed is the function's return value.
RECURSIVE ProcessFiles(_, _, _)
ProcessFiles(files, out, st) ==
  IF files = <<>> THEN st
  ELSE LET f == Head(files) IN
    IF ~HasEnclosureUrl(f) THEN ProcessFiles(Tail(files), out, st)
    ELSE IF HasExistingTranscript(st.transcript, f) THEN ProcessFiles(Tail(files), out, st)
    ELSE IF out[f.ep] = "throw"
      THEN ProcessFiles(Tail(files), out,
             [st EXCEPT !.failLog = AppendLine(@, TranscribeLog, f.ep),
                        !.invoked = @ \cup {f.ep},
                        !.attempts[f.ep] = @ + 1,
                        !.threw = @ \cup {f.ep}])
      ELSE [st EXCEPT !.transcript[TranscriptOwner(f)] = File(Segments(f.ep)),
                      !.invoked = @ \cup {f.ep},
                      !.attempts[f.ep] = @ + 1,
                      !.written = @ \cup {<<"transcript", TranscriptOwner(f)>>},
                      !.processed = TRUE]

ProcessPodcastDirectory(d, out) ==
  ProcessFiles(SelectSeq(DirFiles(meta, transcript, labeled, qa, d), IsMetadataFile), out,
               [transcript |-> transcript, failLog |-> failLog, invoked |-> invoked,
                attempts |-> attempts, threw |-> threw, written |-> written,
                processed |-> FALSE])

\* processPodcastDirectory of the older script: no skip, no early return
RECURSIVE ProcessFilesOld(_, _, _)
ProcessFilesOld(files, out, st) ==
  IF files = <<>> THEN st
  ELSE LET f == Head(files) IN
    IF ~HasEnclosureUrl(f) THEN ProcessFilesOld(Tail(files), out, st)
    ELSE IF out[f.ep] = "throw"
      THEN ProcessFilesOld(Tail(files), out,
             [st EXCEPT !.failLog = AppendLine(@, TranscribeLog, f.ep),
                        !.invoked = @ \cup {f.ep},
                        !.attempts[f.ep] = @ + 1,
                        !.threw = @ \cup {f.ep}])
      ELSE ProcessFilesOld(Tail(files), out,
             [st EXCEPT !.transcript[TranscriptOwner(f)] = File(Segments(f.ep)),
                        !.invoked = @ \cup {f.ep},
                        !.attempts[f.ep] = @ + 1,
                        !.written = @ \cup {<<"transcript", TranscriptOwner(f)>>},
                        !.processed = TRUE])

ProcessPodcastDirectoryOld(d, out) ==
  ProcessFilesOld(SelectSeq(DirFiles(meta, transcript, labeled, qa, d), IsMetadataFileOld), out,
               [transcript |-> transcript, failLog |-> failLog, invoked |-> invoked,
                attempts |-> attempts, threw |-> threw, written |-> written,
                processed |-> FALSE])

\* parseInt(process.argv[2]) || 1, and the data folder is not empty
TranscribeStart ==
  /\ pc = "idle"
  /\ CredentialsPresent("transcribe")
  /\ RootListing(meta) # <<>>
  /\ \E n \in 1..MaxBudget : numPodcasts' = n
  /\ stage' = "transcribe"
  /\ pc' = "running"
  /\ processedCount' = 0
  /\ currentIndex' = 0
  /\ UNCHANGED <<store, db, queue, hist, env>>

CountAfterAlways(count, processed) == count + 1

\* main: processedCount++ only when processPodcastDirectory returned true
CountAfter(count, processed) == IF processed THEN count + 1 ELSE count

\* one iteration of main's while loop
TranscribeIteration ==
  /\ stage = "transcribe" /\ pc = "running"
  /\ processedCount < numPodcasts /\ currentIndex < Len(RootListing(meta))
  /\ LET d == RootListing(meta)[currentIndex + 1] IN
     IF IsDirectory(d)
     THEN \E out \in [{e \in Episodes : EpDir[e] = d} -> TranscribeOutcomes] :
            LET r == ProcessPodcastDirectory(d, out) IN
            /\ TotalLines(r.failLog) <= MaxLogLines
            /\ transcript' = r.transcript
            /\ failLog' = r.failLog
            /\ invoked' = r.invoked
            /\ threw' = r.threw
            /\ written' = r.written
            /\ attempts' = r.attempts
            \* no delay anywhere between two transcribeAudio calls
            /\ sinceDelay' = AfterCalls(sinceDelay,
                                        SumOver(r.attempts, Episodes) - SumOver(attempts, Episodes))
            /\ processedCount' = CountAfter(processedCount, r.processed)
     ELSE UNCHANGED <<transcript, failLog, hist, processedCount>>
  /\ currentIndex' = currentIndex + 1
  /\ UNCHANGED <<meta, audio, labeled, qa, db, stage, pc, numPodcasts, queue, env>>

\* the while condition is false
TranscribeExit ==
  /\ stage = "transcribe" /\ pc = "running"
  /\ ~(processedCount < numPodcasts /\ currentIndex < Len(RootListing(meta)))
  /\ pc' = "done"
  /\ UNCHANGED <<store, db, stage, numPodcasts, processedCount, currentIndex, queue,
                 hist, env>>

\* the older script: podcastDirs.slice(0, numPodcasts)
FirstN(s, n) == SubSeq(s, 1, IF n < Len(s) THEN n ELSE Len(s))

TranscribeOldStart ==
  /\ pc = "idle"
  /\ CredentialsPresent("transcribeOld")
  /\ RootListing(meta) # <<>>
  /\ \E n \in 1..MaxBudget :
       /\ numPodcasts' = n
       /\ queue' = FirstN(RootPositions(meta), n)
  /\ stage' = "transcribeOld"
  /\ pc' = "running"
  /\ UNCHANGED <<store, db, processedCount, currentIndex, hist, env>>

\* one iteration of the older main's for loop
TranscribeOldIteration ==
  /\ stage = "transcribeOld" /\ pc = "running" /\ queue # <<>>
  /\ LET d == RootEntries[Head(queue)] IN
     IF IsDirectory(d)
     THEN \E out \in [{e \in Episodes : EpDir[e] = d} -> TranscribeOutcomes] :
            LET r == ProcessPodcastDirectoryOld(d, out) IN
            /\ TotalLines(r.failLog) <= MaxLogLines
            /\ transcript' = r.transcript
            /\ failLog' = r.failLog
            /\ invoked' = r.invoked
            /\ threw' = r.threw
            /\ written' = r.written
            /\ attempts' = r.attempts
            \* no delay anywhere between two transcribeAudio calls
            /\ sinceDelay' = AfterCalls(sinceDelay,
                                        SumOver(r.attempts, Episodes) - SumOver(attempts, Episodes))
     ELSE UNCHANGED <<transcript, failLog, hist>>
  /\ queue' = Tail(queue)
  /\ UNCHANGED <<meta, audio, labeled, qa, db, stage, pc, numPodcasts, processedCount,
                 currentIndex, env>>

TranscribeOldExit ==
  /\ stage = "transcribeOld" /\ pc = "running" /\ queue = <<>>
  /\ pc' = "done"
  /\ UNCHANGED <<store, db, stage, numPodcasts, processedCount, currentIndex, queue,
                 hist, env>>

\* ---------------------------------------------------------------- labeling
\* findTranscriptFile's walk of one directory: the first *_transcript.json
\* (not *_labeled.json) whose *_transcript_labeled.json does not exist, or 0
NeedsLabelAlways(f, lb) == f.kind = "transcript"

\* file.endsWith("_transcript.json") && !fs.existsSync(labeledPath)
NeedsLabel(f, lb) == f.kind = "transcript" /\ ~lb[f.ep].present

RECURSIVE FindInFiles(_, _)
FindInFiles(files, lb) ==
  IF files = <<>> THEN 0
  ELSE LET f == Head(files) IN
    IF NeedsLabel(f, lb) THEN f.ep
    ELSE FindInFiles(Tail(files), lb)

\* findTranscript(dataDir): depth-first over the root's entries
RECURSIVE FindInEntries(_, _, _, _, _)
FindInEntries(entries, m, tr, lb, q) ==
  IF entries = <<>> THEN 0
  ELSE LET x == Head(entries)
           r == IF IsDirectory(x) THEN FindInFiles(DirFiles(m, tr, lb, q, x), lb) ELSE 0
       IN IF r # 0 THEN r ELSE FindInEntries(Tail(entries), m, tr, lb, q)

FindTranscriptFile(m, tr, lb, q) == FindInEntries(RootListing(m), m, tr, lb, q)

\* what the language model answers.  The call fails ("error"), the response
\* has no text ("empty"), the text is no JSON ("unparseable") or is the JSON
\* value null ("null"): each of these throws inside the try block.  Otherwise
\* the text is a JSON object that names some of the speakers, some of them
\* with an empty string.
NameOf(token) == IF token = "Speaker 0" THEN "Alice" ELSE "Bob"
Range(s) == {s[i] : i \in DOMAIN s}
FailureKinds == {"error", "empty", "unparseable", "null", "scalar"}
FailedCall == [ok |-> FALSE, kind |-> "error", map |-> <<>>]
FailedCalls == {[ok |-> FALSE, kind |-> k, map |-> <<>>] : k \in FailureKinds}
JsonMaps(tokens) ==
  UNION {{m \in [S -> {NameOf(t) : t \in tokens} \cup {""}] :
            \A t \in S : m[t] \in {NameOf(t), ""}} : S \in SUBSET tokens}
AllResponses(tokens) ==
  FailedCalls \cup {[ok |-> TRUE, kind |-> "json", map |-> m] : m \in JsonMaps(tokens)}

\* the answers a labeling run gets: the call fails, or the model names the
\* speakers it can tell
LabelResponses(tokens) ==
  FailedCalls \cup {[ok |-> TRUE, kind |-> "json", map |-> [t \in tokens \ omitted |-> NameOf(t)]]}

IdentifySpeakersAsAnswered(segs, resp) == resp.map

\* a catch block that guesses names instead of giving up
IdentifySpeakersGuessing(segs, resp) == [t \in Range(segs) |-> NameOf(t)]

\* identifySpeakers: every unique speaker gets an entry; the catch block
\* returns the all-"Unknown Speaker" mapping instead of throwing
IdentifySpeakers(segs, resp) ==
  LET uniqueSpeakers == Range(segs) IN
  IF resp.ok
  THEN [t \in uniqueSpeakers |->
          IF t \in DOMAIN resp.map /\ resp.map[t] # "" THEN resp.map[t] ELSE UnknownSpeaker]
  ELSE [t \in uniqueSpeakers |-> UnknownSpeaker]

LabelSegmentsUnknown(segs, mapping) ==
  [i \in DOMAIN segs |-> [speaker |-> segs[i], labeledSpeaker |-> UnknownSpeaker]]

\* main: transcript.map(segment => ({...segment, labeledSpeaker: mapping[speaker] || "Unknown Speaker"}))
LabelSegments(segs, mapping) ==
  [i \in DOMAIN segs |->
     [speaker |-> segs[i],
      labeledSpeaker |-> IF segs[i] \in DOMAIN mapping /\ mapping[segs[i]] # ""
                         THEN mapping[segs[i]] ELSE UnknownSpeaker]]

\* transcript.map((segment) => segment.speaker)
SpeakersOf(entries) == [i \in DOMAIN entries |-> entries[i].speaker]

\* a map that rebuilds each segment from its speaker alone
LabelTranscriptFromSpeakers(entries, mapping) ==
  [i \in DOMAIN entries |->
     [speaker |-> entries[i].speaker, timestampFrom |-> "0:00", timestampTo |-> "0:00",
      content |-> "", labeledSpeaker |-> UnknownSpeaker]]

\* main's transcript.map over whole segments: the spread copies every field of
\* the segment and labeledSpeaker is added to the copy
LabelTranscript(entries, mapping) ==
  [i \in DOMAIN entries |->
     [field \in DOMAIN entries[i] \cup {"labeledSpeaker"} |->
        IF field = "labeledSpeaker"
        THEN IF entries[i].speaker \in DOMAIN mapping /\ mapping[entries[i].speaker] # ""
             THEN mapping[entries[i].speaker] ELSE UnknownSpeaker
        ELSE entries[i][field]]]

LabelTranscriptCall ==
  /\ vInput.k = "labelTranscript"
  /\ vResult = NoCall
  /\ vResult' = [k |-> "labeled",
                 value |-> LabelTranscript(vInput.entries,
                                           IdentifySpeakers(SpeakersOf(vInput.entries),
                                                            vInput.resp))]
  /\ UNCHANGED <<store, db, ctl, hist, deleted, world, partial, vInput>>

\* identifySpeakers called on its own with a transcript and an answer
IdentifySpeakersCall ==
  /\ vInput.k = "identifySpeakers"
  /\ vResult = NoCall
  /\ vResult' = [k |-> "mapping", map |-> IdentifySpeakers(vInput.segs, vInput.resp)]
  /\ UNCHANGED <<store, db, ctl, hist, deleted, world, partial, vInput>>

\* label-speakers.ts main: one run labels at most one transcript
LabelRun ==
  /\ pc = "idle"
  /\ CredentialsPresent("label")
  /\ stage' = "label"
  /\ pc' = "done"
  /\ \E e \in {FindTranscriptFile(meta, transcript, labeled, qa)} :
     IF e = 0 \/ ~meta[e] \/ Len(transcript[e].data) = 0
     THEN UNCHANGED <<labeled, hist>>
     ELSE \E segs \in {transcript[e].data} :
          \E resp \in LabelResponses(Range(segs)) :
          \E speakerMapping \in {IdentifySpeakers(segs, resp)} :
            /\ labeled' = [labeled EXCEPT ![e] = File(LabelSegments(segs, speakerMapping))]
            /\ invoked' = {e}
            /\ attempts' = [attempts EXCEPT ![e] = @ + 1]
            /\ sinceDelay' = AfterCalls(sinceDelay, 1)
            /\ threw' = IF resp.ok THEN {} ELSE {e}
            /\ written' = {<<"labeled", e>>}
  /\ UNCHANGED <<meta, audio, transcript, qa, failLog, db, numPodcasts, processedCount,
                 currentIndex, queue, env>>

\* ---------------------------------------------------------- Q&A generation
RECURSIVE FindLabeledInFiles(_, _)
FindLabeledInFiles(files, q) ==
  IF files = <<>> THEN 0
  ELSE LET f == Head(files) IN
    IF f.kind = "labeled" /\ ~q[f.ep] THEN f.ep
    ELSE FindLabeledInFiles(Tail(files), q)

RECURSIVE FindLabeledInEntries(_, _, _, _, _)
FindLabeledInEntries(entries, m, tr, lb, q) ==
  IF entries = <<>> THEN 0
  ELSE LET x == Head(entries)
           r == IF IsDirectory(x) THEN FindLabeledInFiles(DirFiles(m, tr, lb, q, x), q) ELSE 0
       IN IF r # 0 THEN r ELSE FindLabeledInEntries(Tail(entries), m, tr, lb, q)

FindLabeledTranscriptFile(m, tr, lb, q) == FindLabeledInEntries(RootListing(m), m, tr, lb, q)

\* Q&A main: generateQAPairs returns [] on any error, and nothing is saved
QARun ==
  /\ pc = "idle"
  /\ CredentialsPresent("qa")
  /\ stage' = "qa"
  /\ pc' = "done"
  /\ LET e == FindLabeledTranscriptFile(meta, transcript, labeled, qa) IN
     IF e = 0 \/ Len(labeled[e].data) = 0
     THEN UNCHANGED <<qa, hist>>
     ELSE \E pairs \in BOOLEAN :
            /\ invoked' = {e}
            /\ attempts' = [attempts EXCEPT ![e] = @ + 1]
            /\ sinceDelay' = AfterCalls(sinceDelay, 1)
            /\ threw' = IF pairs THEN {} ELSE {e}
            /\ IF pairs
               THEN qa' = [qa EXCEPT ![e] = TRUE] /\ written' = {<<"qa", e>>}
               ELSE UNCHANGED <<qa, written>>
  /\ UNCHANGED <<meta, audio, transcript, labeled, failLog, db, numPodcasts, processedCount,
                 currentIndex, queue, env>>

\* -------------------------------------------------------------- validation
\* JSON values as JSON.parse returns them: k is the kind, v the payload. A
\* number is held in tenths (1.5 is 15), a string as its sequence of
\* characters, an array as the sequence of its elements, an object as the
\* record of its properties.
Absent == [k |-> "undefined", v |-> 0]
Null == [k |-> "null", v |-> 0]
Bool(b) == [k |-> "boolean", v |-> b]
Num(tenths) == [k |-> "number", v |-> tenths]
Str(chars) == [k |-> "string", v |-> chars]
Arr(elems) == [k |-> "array", v |-> elems]
Obj(props) == [k |-> "object", v |-> props]

\* a transcript entry
Entry(speaker, from, to, content) ==
  Obj([speaker |-> speaker, timestampFrom |-> from, timestampTo |-> to, content |-> content])

\* data.f
Get(x, f) == IF x.k = "object" /\ f \in DOMAIN x.v THEN x.v[f] ELSE Absent

\* !!x
Truthy(x) ==
  CASE x.k \in {"undefined", "null"} -> FALSE
    [] x.k = "boolean" -> x.v
    [] x.k = "number" -> x.v # 0
    [] x.k = "string" -> x.v # <<>>
    [] OTHER -> TRUE

\* typeof x
TypeOf(x) ==
  CASE x.k \in {"null", "array", "object"} -> "object"
    [] OTHER -> x.k

DigitChars == <<"0", "1", "2", "3", "4", "5", "6", "7", "8", "9">>
Digits == Range(DigitChars)
DigitValue(c) == (CHOOSE d \in DOMAIN DigitChars : DigitChars[d] = c) - 1

RECURSIVE DecimalOf(_)
DecimalOf(n) ==
  IF n < 10 THEN <<DigitChars[n + 1]>>
  ELSE DecimalOf(n \div 10) \o <<DigitChars[(n % 10) + 1]>>

\* String(x), the coercion RegExp.prototype.test applies to its argument
RECURSIVE ToStr(_)
ToStr(x) ==
  CASE x.k = "string" -> x.v
    [] x.k = "undefined" -> <<"u", "n", "d", "e", "f", "i", "n", "e", "d">>
    [] x.k = "null" -> <<"n", "u", "l", "l">>
    [] x.k = "boolean" -> IF x.v THEN <<"t", "r", "u", "e">> ELSE <<"f", "a", "l", "s", "e">>
    [] x.k = "number" ->
         IF x.v % 10 = 0 THEN DecimalOf(x.v \div 10)
         ELSE DecimalOf(x.v \div 10) \o <<".">> \o DecimalOf(x.v % 10)
    [] x.k = "array" ->
         IF x.v = <<>> THEN <<>>
         ELSE LET first == IF Head(x.v).k \in {"undefined", "null"} THEN <<>>
                           ELSE ToStr(Head(x.v))
              IN IF Len(x.v) = 1 THEN first
                 ELSE first \o <<",">> \o ToStr(Arr(Tail(x.v)))
    [] OTHER -> <<"[", "o", "b", "j", "e", "c", "t", " ", "O", "b", "j", "e", "c", "t", "]">>

\* /^\d+:\d{2}$/.test(x)
TimestampRegexTest(x) ==
  LET s == ToStr(x)
      n == Len(s)
  IN /\ n >= 4
     /\ s[n - 2] = ":"
     /\ s[n - 1] \in Digits
     /\ s[n] \in Digits
     /\ \A i \in 1..(n - 3) : s[i] \in Digits

\* s.split(":")
RECURSIVE Split(_)
Split(s) ==
  IF \A i \in DOMAIN s : s[i] # ":" THEN <<s>>
  ELSE LET c == CHOOSE i \in DOMAIN s : s[i] = ":" /\ \A j \in 1..(i - 1) : s[j] # ":"
       IN <<SubSeq(s, 1, c - 1)>> \o Split(SubSeq(s, c + 1, Len(s)))

RECURSIVE DigitsValue(_)
DigitsValue(s) ==
  IF s = <<>> THEN 0 ELSE 10 * DigitsValue(SubSeq(s, 1, Len(s) - 1)) + DigitValue(s[Len(s)])

\* Number(s) for the parts of a split timestamp
NumberOf(s) ==
  IF \A i \in DOMAIN s : s[i] \in Digits
  THEN [nan |-> FALSE, n |-> DigitsValue(s)]
  ELSE [nan |-> TRUE, n |-> 0]

SecondsTooLargeAbove(x) == ~x.nan /\ x.n > 60

\* seconds >= 60
SecondsTooLarge(x) == ~x.nan /\ x.n >= 60

EntryError(index, field, reason) == [index |-> index, field |-> field, reason |-> reason]

\* the format and range check of one timestamp property; split exists on
\* strings only
CheckTimestamp(x, index, field) ==
  IF ~TimestampRegexTest(x)
  THEN [threw |-> FALSE, errors |-> <<EntryError(index, field, "format")>>]
  ELSE IF x.k # "string"
  THEN [threw |-> TRUE, errors |-> <<>>]
  ELSE IF SecondsTooLarge(NumberOf(Split(x.v)[2]))
  THEN [threw |-> FALSE, errors |-> <<EntryError(index, field, "seconds")>>]
  ELSE [threw |-> FALSE, errors |-> <<>>]

RequiredString(entry, index, field) ==
  IF ~Truthy(Get(entry, field)) \/ TypeOf(Get(entry, field)) # "string"
  THEN <<EntryError(index, field, "missing")>>
  ELSE <<>>

\* the forEach callback of validateTranscriptData
CheckEntry(entry, index) ==
  IF ~Truthy(entry) \/ TypeOf(entry) # "object"
  THEN [threw |-> FALSE, errors |-> <<EntryError(index, "entry", "notObject")>>]
  ELSE LET required == RequiredString(entry, index, "speaker")
                         \o RequiredString(entry, index, "timestampFrom")
                         \o RequiredString(entry, index, "timestampTo")
                         \o RequiredString(entry, index, "content")
           from == CheckTimestamp(Get(entry, "timestampFrom"), index, "timestampFrom")
           to == CheckTimestamp(Get(entry, "timestampTo"), index, "timestampTo")
       IN IF from.threw THEN [threw |-> TRUE, errors |-> required]
          ELSE IF to.threw THEN [threw |-> TRUE, errors |-> required \o from.errors]
          ELSE [threw |-> FALSE, errors |-> required \o from.errors \o to.errors]

\* data.forEach((entry, index) => ...): indexes count from 0
RECURSIVE CheckEntries(_, _)
CheckEntries(entries, index) ==
  IF entries = <<>> THEN [threw |-> FALSE, errors |-> <<>>]
  ELSE LET first == CheckEntry(Head(entries), index) IN
    IF first.threw THEN first
    ELSE LET rest == CheckEntries(Tail(entries), index + 1)
         IN [threw |-> rest.threw, errors |-> first.errors \o rest.errors]

\* { isValid: errors.length === 0, errors, data: errors.length === 0 ? data : undefined }
ValidationResult(errors, data) ==
  [k |-> "result", isValid |-> Len(errors) = 0, errors |-> errors,
   data |-> IF Len(errors) = 0 THEN data ELSE Absent]

\* the call ended in an exception
Threw == [k |-> "threw"]

ValidateTranscriptData(data) ==
  IF data.k # "array"
  THEN [k |-> "result", isValid |-> FALSE,
        errors |-> <<EntryError(-1, "data", "notArray")>>, data |-> Absent]
  ELSE LET checked == CheckEntries(data.v, 0) IN
    IF checked.threw THEN Threw ELSE ValidationResult(checked.errors, data)

FieldError(field) == [field |-> field]

Required(data, field, type) ==
  IF ~Truthy(Get(data, field)) \/ TypeOf(Get(data, field)) # type
  THEN <<FieldError(field)>> ELSE <<>>

Optional(data, field) ==
  IF Truthy(Get(data, field)) /\ TypeOf(Get(data, field)) # "number"
  THEN <<FieldError(field)>> ELSE <<>>

ValidateEpisodeData(data) ==
  IF ~Truthy(data) \/ TypeOf(data) # "object"
  THEN [k |-> "result", isValid |-> FALSE, errors |-> <<FieldError("data")>>, data |-> Absent]
  ELSE ValidationResult(Required(data, "id", "number") \o Required(data, "title", "string")
                          \o Optional(data, "datePublished") \o Optional(data, "dateCrawled")
                          \o Optional(data, "duration") \o Optional(data, "episode"),
                        data)

\* the characters feed titles are made of here: letters of both cases, a
\* digit, a blank, an ampersand and an underscore
TitleAlphabet == {"A", "b", "7", " ", "&", "_"}

\* [a-z0-9] under the i flag
IsAlphanumeric(c) == c \in {"A", "a", "b", "B", "7"}

\* String.prototype.toLowerCase, one character
ToLowerCase(c) == CASE c = "A" -> "a" [] c = "B" -> "b" [] OTHER -> c

\* episode.feedTitle.replace(/[^a-z0-9]/gi, "_").toLowerCase()
SanitizedTitle(title) ==
  [i \in DOMAIN title |-> ToLowerCase(IF IsAlphanumeric(title[i]) THEN title[i] ELSE "_")]

SanitizeCall ==
  /\ vInput.k = "sanitize"
  /\ vResult = NoCall
  /\ vResult' = [k |-> "directory", name |-> SanitizedTitle(vInput.title)]
  /\ UNCHANGED <<store, db, ctl, hist, deleted, world, partial, vInput>>

\* String.prototype.padStart(2, "0") without the padding
PadStartNone(s) == s

\* String.prototype.padStart(2, "0")
PadStart(s) == IF Len(s) >= 2 THEN s ELSE IF Len(s) = 1 THEN <<"0">> \o s ELSE <<"0", "0">>

\* formatTime; seconds is a number with one decimal, held in tenths
FormatTime(tenths) ==
  LET minutes == tenths \div 600
      remainingSeconds == (tenths % 600) \div 10
  IN PadStart(DecimalOf(minutes)) \o <<":">> \o PadStart(DecimalOf(remainingSeconds))

\* the callback transcribeAudio maps over output.segments
TranscribeSegment(segment) ==
  [speaker |-> <<"S", "p", "e", "a", "k", "e", "r", " ">> \o DecimalOf(segment.speaker),
   timestampFrom |-> FormatTime(segment.start),
   timestampTo |-> FormatTime(segment.end)]

TranscribeSegmentCall ==
  /\ vInput.k = "segment"
  /\ vResult = NoCall
  /\ vResult' = [k |-> "transcribed", value |-> TranscribeSegment(vInput)]
  /\ UNCHANGED <<store, db, ctl, hist, deleted, world, partial, vInput>>

\* what a file at an artifact's path can be when a loader reads it
FileStates == {"absent", "corrupt", "parses"}

Loaders == {"loadEpisodeMetadata", "loadTranscript", "loadLabeledTranscript"}

\* JSON.parse of a well-formed artifact of the loader's kind
ParsedContent(loader) ==
  IF loader = "loadEpisodeMetadata"
  THEN Obj([id |-> Num(1010), title |-> Str(<<"T">>)])
  ELSE Arr(<<Entry(Str(<<"A">>), Str(<<"0", ":", "0", "5">>), Str(<<"0", ":", "5", "6">>),
                   Str(<<"h", "i">>))>>)

\* return null (metadata) / return [] (transcripts): the value of both the
\* existsSync branch and the catch block
NothingLoaded(loader) == IF loader = "loadEpisodeMetadata" THEN Null ELSE Arr(<<>>)

\* loadEpisodeMetadata, loadTranscript, loadLabeledTranscript: the value
\* returned and the line written to the console
Load(loader, file) ==
  CASE file = "absent" -> [k |-> "loaded", value |-> NothingLoaded(loader), logged |-> "notFound"]
    [] file = "corrupt" -> [k |-> "loaded", value |-> NothingLoaded(loader), logged |-> "error"]
    [] OTHER -> [k |-> "loaded", value |-> ParsedContent(loader), logged |-> "nothing"]

LoadCall ==
  /\ vInput.k = "load"
  /\ vResult = NoCall
  /\ vResult' = Load(vInput.loader, vInput.file)
  /\ UNCHANGED <<store, db, ctl, hist, deleted, world, partial, vInput>>

\* the validators called on their own
ValidateTranscriptCall ==
  /\ vInput.k = "validateTranscriptData"
  /\ vResult = NoCall
  /\ vResult' = ValidateTranscriptData(vInput.data)
  /\ UNCHANGED <<store, db, ctl, hist, deleted, world, partial, vInput>>

ValidateEpisodeCall ==
  /\ vInput.k = "validateEpisodeData"
  /\ vResult = NoCall
  /\ vResult' = ValidateEpisodeData(vInput.data)
  /\ UNCHANGED <<store, db, ctl, hist, deleted, world, partial, vInput>>

\* ------------------------------------------------------------- persistence
\* findFiles(dataDir, /_transcript_labeled\.json$/): the episodes whose
\* labeled transcript exists, in walk order
RECURSIVE LabeledOf(_)
LabeledOf(files) ==
  IF files = <<>> THEN <<>>
  ELSE (IF Head(files).kind = "labeled" THEN <<Head(files).ep>> ELSE <<>>)
       \o LabeledOf(Tail(files))

RECURSIVE FindFiles(_, _, _, _, _)
FindFiles(entries, m, tr, lb, q) ==
  IF entries = <<>> THEN <<>>
  ELSE (IF IsDirectory(Head(entries))
        THEN LabeledOf(DirFiles(m, tr, lb, q, Head(entries))) ELSE <<>>)
       \o FindFiles(Tail(entries), m, tr, lb, q)

\* JSON.parse of an episode's metadata file
MetaJson(e) ==
  Obj([id |-> Num(10 * EpId[e]),
       title |-> IF shape[e] = "noTitle" THEN Absent ELSE Str(<<"T">>),
       datePublished |-> IF shape[e] = "noDate" THEN Absent ELSE Num(17000)])

\* validateEpisodeData on the parsed metadata: isValid and data
EpisodeValid(e) ==
  LET episodeValidation == ValidateEpisodeData(MetaJson(e))
  IN episodeValidation.isValid /\ episodeValidation.data # Absent

\* new Date(x * 1000).toISOString() returns: x * 1000 is a number, not NaN
DateIsValid(x) ==
  CASE x.k \in {"number", "null", "boolean"} -> TRUE
    [] x.k = "string" -> \A i \in DOMAIN x.v : x.v[i] \in Digits
    [] OTHER -> FALSE

\* the "Published:" line logged inside the try block
PublishedLogged(e) == DateIsValid(Get(MetaJson(e), "datePublished"))

\* the characters of a speaker token
TokenChars(token) ==
  CASE token = "" -> <<>>
    [] token = "Speaker 0" -> <<"S", "p", "e", "a", "k", "e", "r", " ", "0">>
    [] OTHER -> <<"S", "p", "e", "a", "k", "e", "r", " ", "1">>

\* JSON.parse of a labeled transcript file
TranscriptJson(data) ==
  Arr([i \in DOMAIN data |->
         Entry(Str(TokenChars(data[i].speaker)), Str(<<"0", ":", "0", "5">>),
               Str(<<"0", ":", "5", "6">>), Str(<<"h", "i">>))])

\* validateTranscriptData on a labeled transcript
TranscriptValid(data) ==
  LET transcriptValidation == ValidateTranscriptData(TranscriptJson(data))
  IN transcriptValidation.k = "result" /\ transcriptValidation.isValid

\* the body of validateFiles' loop: TRUE when the item is pushed
Admitted(e, m, lb) ==
  /\ m[e]
  /\ shape[e] # "corrupt"
  /\ EpisodeValid(e)
  /\ PublishedLogged(e)
  /\ TranscriptValid(lb[e].data)

\* validateFiles: the items admitted to insertData
ValidateFiles(m, tr, lb, q) ==
  SelectSeq(FindFiles(RootListing(m), m, tr, lb, q), LAMBDA e : Admitted(e, m, lb))

\* String(episode.id)
String(id) == ToString(id)

\* db.select().from(episodesTable).where(eq(externalId, ...))
ExistingRows(dbE, ext) == {i \in DOMAIN dbE : dbE[i] = ext}

\* externalId is declared unique: a second row with it is refused
UniqueViolation(dbE, ext) == \E i \in DOMAIN dbE : dbE[i] = ext

\* rows that leave the nullable episodeId column empty
SegmentRowsUnlinked(rowId, data) ==
  [i \in DOMAIN data |->
     [episodeId |-> 0, speaker |-> data[i].speaker,
      labeledSpeaker |-> data[i].labeledSpeaker]]

SegmentRows(rowId, data) ==
  [i \in DOMAIN data |->
     [episodeId |-> rowId, speaker |-> data[i].speaker,
      labeledSpeaker |-> data[i].labeledSpeaker]]

InsertOutcomes == {"ok", "episodeError", "segmentError"}

\* the skip that only skips the episode insert
InsertOneSegmentsAgain(e, outcome, dbE, dbS, data) ==
  LET ext == String(EpId[e])
      rows == ExistingRows(dbE, ext)
  IN IF rows # {}
     THEN [eps |-> dbE, segs |-> dbS \o SegmentRows(CHOOSE i \in rows : TRUE, data),
           invoked |-> {}, threw |-> {}, wrote |-> {}]
     ELSE [eps |-> Append(dbE, ext), segs |-> dbS \o SegmentRows(Len(dbE) + 1, data),
           invoked |-> {e}, threw |-> {}, wrote |-> {<<"row", e>>, <<"segments", e>>}]

\* an insert with neither the lookup nor the unique index in its way
InsertOneUnchecked(e, outcome, dbE, dbS, data) ==
  [eps |-> Append(dbE, String(EpId[e])),
   segs |-> dbS \o SegmentRows(Len(dbE) + 1, data),
   invoked |-> {e}, threw |-> {}, wrote |-> {<<"row", e>>, <<"segments", e>>}]

\* the body of insertData's for loop for one validated item
InsertOne(e, outcome, dbE, dbS, data) ==
  LET ext == String(EpId[e]) IN
  IF ExistingRows(dbE, ext) # {}
  THEN [eps |-> dbE, segs |-> dbS, invoked |-> {}, threw |-> {}, wrote |-> {}]
  ELSE IF outcome = "episodeError" \/ UniqueViolation(dbE, ext)
  THEN [eps |-> dbE, segs |-> dbS, invoked |-> {e}, threw |-> {e}, wrote |-> {}]
  ELSE LET eps2 == Append(dbE, ext) IN
    IF Len(data) = 0
    THEN [eps |-> eps2, segs |-> dbS, invoked |-> {e}, threw |-> {},
          wrote |-> {<<"row", e>>}]
    ELSE IF outcome = "segmentError"
    THEN [eps |-> eps2, segs |-> dbS, invoked |-> {e}, threw |-> {e},
          wrote |-> {<<"row", e>>}]
    ELSE [eps |-> eps2, segs |-> dbS \o SegmentRows(Len(eps2), data),
          invoked |-> {e}, threw |-> {}, wrote |-> {<<"row", e>>, <<"segments", e>>}]

\* index.ts main: validateFiles, then insertData when something was validated
PersistStart ==
  /\ pc = "idle"
  /\ stage' = "persist"
  /\ pc' = "running"
  /\ queue' = ValidateFiles(meta, transcript, labeled, qa)
  /\ UNCHANGED <<store, db, numPodcasts, processedCount, currentIndex, hist, env>>

InsertItem ==
  /\ stage = "persist" /\ pc = "running" /\ queue # <<>>
  /\ \E outcome \in InsertOutcomes :
       LET r == InsertOne(Head(queue), outcome, dbEpisodes, dbSegments,
                          labeled[Head(queue)].data) IN
       /\ dbEpisodes' = r.eps
       /\ dbSegments' = r.segs
       /\ invoked' = invoked \cup r.invoked
       /\ threw' = threw \cup r.threw
       /\ written' = written \cup r.wrote
       /\ UNCHANGED <<attempts, sinceDelay>>
  /\ queue' = Tail(queue)
  /\ UNCHANGED <<store, stage, pc, numPodcasts, processedCount, currentIndex, env>>

PersistExit ==
  /\ stage = "persist" /\ pc = "running" /\ queue = <<>>
  /\ pc' = "done"
  /\ UNCHANGED <<store, db, stage, numPodcasts, processedCount, currentIndex, queue,
                 hist, env>>

\* --------------------------------------------------------------- awaits
\* The loops again, one step per await of a remote call: the step that issues
\* the call and suspends the caller, and the step in which the call settles
\* and the caller goes on to the write or the failure log.

\* a call issued without await: the caller goes on where it is
AwaitDetached(position) == position

\* the caller's position after `await call(...)`: suspended until it settles
Await(position) == "awaiting"

\* a loop that forgets to advance
NextIndexStuck(index) == index

\* main: currentIndex++ at the end of the while body
NextIndex(index) == index + 1

\* downloadEpisode up to `await fetch(episode.enclosureUrl)`
DownloadEpisodeCall ==
  /\ stage = "fetch" /\ pc = "running" /\ queue # <<>>
  /\ LET e == Head(queue) IN
       /\ ~AlreadyDownloaded(meta, audio, e)
       /\ ~audio[e]
       /\ meta' = [meta EXCEPT ![e] = TRUE]
       /\ shape' = MetadataSaved(meta, shape, e)
       /\ written' = written \cup (IF meta[e] THEN {} ELSE {<<"meta", e>>})
       /\ invoked' = invoked \cup {e}
       /\ attempts' = [attempts EXCEPT ![e] = @ + 1]
  /\ inFlight' = inFlight + 1
  /\ pc' = Await(pc)
  /\ UNCHANGED <<audio, transcript, labeled, qa, failLog, db, stage, numPodcasts,
                 processedCount, currentIndex, queue, threw, sinceDelay, deleted, silent,
                 omitted, test, missing, partial>>

\* the response arrives: the audio is written, or the catch block appends to
\* failed_downloads.txt; then processEpisodes' delay and the next item
DownloadEpisodeSettled ==
  /\ stage = "fetch" /\ pc = "awaiting"
  /\ LET e == Head(queue) IN
     \E ok \in BOOLEAN :
       IF ok
       THEN /\ audio' = [audio EXCEPT ![e] = TRUE]
            /\ written' = written \cup {<<"audio", e>>}
            /\ UNCHANGED <<failLog, threw>>
       ELSE /\ TotalLines(failLog) < MaxLogLines
            /\ failLog' = AppendLine(failLog, FetchLog, e)
            /\ threw' = threw \cup {e}
            /\ UNCHANGED <<audio, written>>
  /\ inFlight' = inFlight - 1
  /\ sinceDelay' = 0
  /\ queue' = Tail(queue)
  /\ pc' = "running"
  /\ UNCHANGED <<meta, transcript, labeled, qa, db, stage, numPodcasts, processedCount,
                 currentIndex, invoked, attempts, deleted, silent, omitted, shape, test,
                 missing, partial>>

\* downloadEpisode when it issues no request: both files exist, or the audio does
DownloadEpisodeLocal ==
  /\ DownloadEpisode
  /\ AlreadyDownloaded(meta, audio, Head(queue)) \/ audio[Head(queue)]

\* the episodes of the metadata files processPodcastDirectory loops over
MetadataEpisodes(d) ==
  LET files == SelectSeq(DirFiles(meta, transcript, labeled, qa, d),
                         LAMBDA f : IsMetadataFile(f) /\ HasEnclosureUrl(f))
  IN [i \in DOMAIN files |-> files[i].ep]

\* main's while loop calls processPodcastDirectory, which lists the directory
EnterDirectory ==
  /\ stage = "transcribe" /\ pc = "running"
  /\ processedCount < numPodcasts /\ currentIndex < Len(RootListing(meta))
  /\ LET d == RootListing(meta)[currentIndex + 1] IN
     IF IsDirectory(d)
     THEN /\ queue' = MetadataEpisodes(d)
          /\ pc' = "inDirectory"
          /\ UNCHANGED currentIndex
     ELSE /\ currentIndex' = NextIndex(currentIndex)
          /\ UNCHANGED <<queue, pc>>
  /\ UNCHANGED <<store, db, stage, numPodcasts, processedCount, hist, env>>

\* the for loop's head: a file that has its transcript is passed over, and
\* after the last file the function returns false
DirectoryStep ==
  /\ stage = "transcribe" /\ pc = "inDirectory"
  /\ IF queue = <<>>
     THEN /\ pc' = "running"
          /\ currentIndex' = NextIndex(currentIndex)
          /\ UNCHANGED queue
     ELSE /\ HasExistingTranscript(transcript, [ep |-> Head(queue), kind |-> "meta"])
          /\ queue' = Tail(queue)
          /\ UNCHANGED <<pc, currentIndex>>
  /\ UNCHANGED <<store, db, stage, numPodcasts, processedCount, hist, env>>

\* `await transcribeAudio(metadata.enclosureUrl)` is issued
TranscribeCall ==
  /\ stage = "transcribe" /\ pc = "inDirectory" /\ queue # <<>>
  /\ ~HasExistingTranscript(transcript, [ep |-> Head(queue), kind |-> "meta"])
  /\ invoked' = invoked \cup {Head(queue)}
  /\ attempts' = [attempts EXCEPT ![Head(queue)] = @ + 1]
  /\ sinceDelay' = AfterCalls(sinceDelay, 1)
  /\ inFlight' = inFlight + 1
  /\ pc' = Await(pc)
  /\ UNCHANGED <<store, db, stage, numPodcasts, processedCount, currentIndex, queue, threw,
                 written, deleted, silent, omitted, shape, test, missing, partial>>

\* the service answers: saveTranscript and return true, or the catch block
\* appends to failed_transcriptions.txt and the loop continues
TranscribeSettled ==
  /\ stage = "transcribe" /\ pc = "awaiting"
  /\ LET f == [ep |-> Head(queue), kind |-> "meta"] IN
     \E out \in TranscribeOutcomes :
       IF out = "ok"
       THEN /\ transcript' = [transcript EXCEPT ![TranscriptOwner(f)] = File(Segments(f.ep))]
            /\ written' = written \cup {<<"transcript", TranscriptOwner(f)>>}
            /\ processedCount' = CountAfter(processedCount, TRUE)
            /\ currentIndex' = NextIndex(currentIndex)
            /\ queue' = <<>>
            /\ pc' = "running"
            /\ UNCHANGED <<failLog, threw>>
       ELSE /\ TotalLines(failLog) < MaxLogLines
            /\ failLog' = AppendLine(failLog, TranscribeLog, f.ep)
            /\ threw' = threw \cup {f.ep}
            /\ queue' = Tail(queue)
            /\ pc' = "inDirectory"
            /\ UNCHANGED <<transcript, written, processedCount, currentIndex>>
  /\ inFlight' = inFlight - 1
  /\ UNCHANGED <<meta, audio, labeled, qa, db, stage, numPodcasts, invoked, attempts,
                 sinceDelay, deleted, silent, omitted, shape, test, missing, partial>>

\* insertData sends the statements of the next item to the database
InsertCall ==
  /\ stage = "persist" /\ pc = "running" /\ queue # <<>>
  /\ inFlight' = inFlight + 1
  /\ pc' = Await(pc)
  /\ UNCHANGED <<store, db, stage, numPodcasts, processedCount, currentIndex, queue, hist,
                 deleted, silent, omitted, shape, test, missing, partial>>

\* the database has answered the item's last statement
InsertSettled ==
  /\ stage = "persist" /\ pc = "awaiting"
  /\ \E outcome \in InsertOutcomes :
       LET r == InsertOne(Head(queue), outcome, dbEpisodes, dbSegments,
                          labeled[Head(queue)].data) IN
       /\ dbEpisodes' = r.eps
       /\ dbSegments' = r.segs
       /\ invoked' = invoked \cup r.invoked
       /\ threw' = threw \cup r.threw
       /\ written' = written \cup r.wrote
  /\ inFlight' = inFlight - 1
  /\ queue' = Tail(queue)
  /\ pc' = "running"
  /\ UNCHANGED <<store, stage, numPodcasts, processedCount, currentIndex, attempts,
                 sinceDelay, deleted, silent, omitted, shape, test, missing, partial>>

\* ---------------------------------------------------------------- kills
\* the process is gone: nothing of the run survives but the data root
Killed ==
  /\ stage' = "idle"
  /\ pc' = "idle"
  /\ numPodcasts' = 0
  /\ processedCount' = 0
  /\ currentIndex' = 0
  /\ queue' = <<>>
  /\ invoked' = {}
  /\ threw' = {}
  /\ written' = {}
  /\ attempts' = NoAttempts
  /\ sinceDelay' = 0

\* downloadEpisode killed inside fs.writeFileSync(audioPath, ...): the file
\* was created at its final path and holds part of the audio
DownloadKilled ==
  /\ stage = "fetch" /\ pc = "running" /\ queue # <<>>
  /\ Cardinality(partial) < MaxKills
  /\ LET e == Head(queue) IN
       /\ ~AlreadyDownloaded(meta, audio, e)
       /\ ~audio[e]
       /\ meta' = [meta EXCEPT ![e] = TRUE]
       /\ audio' = [audio EXCEPT ![e] = TRUE]
       /\ partial' = partial \cup {<<"audio", e>>}
  /\ Killed
  /\ UNCHANGED <<transcript, labeled, qa, failLog, db, deleted, world, test>>

\* processPodcastDirectory killed inside saveTranscript's writeFileSync: the
\* transcript file exists and holds the beginning of the JSON text
TranscribeKilled ==
  /\ stage = "transcribe" /\ pc = "running"
  /\ processedCount < numPodcasts /\ currentIndex < Len(RootListing(meta))
  /\ Cardinality(partial) < MaxKills
  /\ \E d \in {RootListing(meta)[currentIndex + 1]} :
       /\ IsDirectory(d)
       /\ \E out \in [{e \in Episodes : EpDir[e] = d} -> TranscribeOutcomes] :
          \E r \in {ProcessPodcastDirectory(d, out)} :
          \E w \in r.written \ written :
            /\ TotalLines(r.failLog) <= MaxLogLines
            /\ transcript' = [r.transcript EXCEPT ![w[2]] = File(<<>>)]
            /\ failLog' = r.failLog
            /\ partial' = partial \cup {w}
  /\ Killed
  /\ UNCHANGED <<meta, audio, labeled, qa, db, deleted, world, test>>

\* label-speakers.ts killed inside saveLabeledTranscript's writeFileSync
LabelKilled ==
  /\ pc = "idle"
  /\ CredentialsPresent("label")
  /\ Cardinality(partial) < MaxKills
  /\ \E e \in {FindTranscriptFile(meta, transcript, labeled, qa)} :
       /\ e # 0 /\ meta[e] /\ Len(transcript[e].data) # 0
       /\ labeled' = [labeled EXCEPT ![e] = File(<<>>)]
       /\ partial' = partial \cup {<<"labeled", e>>}
  /\ UNCHANGED <<meta, audio, transcript, qa, failLog, db, ctl, hist, deleted, world, test>>

\* ------------------------------------------------------------ the operator
\* the operator removes one episode's labeled transcript between runs
DeleteLabeled ==
  /\ pc = "idle"
  /\ deleted = 0
  /\ \E e \in Episodes :
       /\ labeled[e].present
       /\ labeled' = [labeled EXCEPT ![e] = NoFile]
       /\ deleted' = e
  /\ UNCHANGED <<meta, audio, transcript, qa, failLog, db, ctl, hist, world, partial, test>>

\* ---------------------------------------------------------- specifications
\* the file stages, from an empty data root
Next ==
  \/ FetchStart \/ DownloadEpisode \/ FetchExit
  \/ TranscribeStart \/ TranscribeIteration \/ TranscribeExit
  \/ TranscribeOldStart \/ TranscribeOldIteration \/ TranscribeOldExit
  \/ LabelRun
  \/ QARun
  \/ Finish

Spec == Init /\ [][Next]_vars

Idle ==
  /\ stage = "idle"
  /\ pc = "idle"
  /\ numPodcasts = 0
  /\ processedCount = 0
  /\ currentIndex = 0
  /\ queue = <<>>
  /\ invoked = {}
  /\ threw = {}
  /\ written = {}
  /\ attempts = NoAttempts
  /\ sinceDelay = 0

Speech == <<"Speaker 0", "Speaker 1", "Speaker 0">>
LabeledContents ==
  {LabelSegments(Speech, IdentifySpeakers(Speech, r)) : r \in LabelResponses(Range(Speech))}

\* repeated labeling runs over what fetch and transcription left: every
\* transcript has its metadata, nothing is labeled yet
InitLabel ==
  /\ silent \in SilentChoices
  /\ omitted \in OmittedChoices
  /\ shape = FullShape
  /\ AtRest
  /\ Intact
  /\ meta \in [Episodes -> BOOLEAN]
  /\ audio = meta
  /\ \E T \in SUBSET {e \in Episodes : meta[e]} :
       transcript = [e \in Episodes |-> IF e \in T THEN File(Segments(e)) ELSE NoFile]
  /\ labeled = [e \in Episodes |-> NoFile]
  /\ qa = [e \in Episodes |-> FALSE]
  /\ failLog = [l \in Logs |-> [e \in Episodes |-> 0]]
  /\ dbEpisodes = <<>>
  /\ dbSegments = <<>>
  /\ Idle
  /\ deleted = 0

NextLabel == LabelRun \/ Finish

\* every run of the script returns, and the operator starts the labeling
\* script again whenever no script is running
SpecLabel == InitLabel /\ [][NextLabel]_vars /\ WF_vars(LabelRun) /\ WF_vars(Finish)

\* transcripts of up to MaxSegs segments
SegmentSeqs == UNION {[1..n -> {"Speaker 0", "Speaker 1"}] : n \in 0..MaxSegs}

IdentifyInputs ==
  UNION {{[k |-> "identifySpeakers", segs |-> sg, resp |-> r] : r \in AllResponses(Range(sg))}
           : sg \in SegmentSeqs}

\* timestamp strings: everything short over a digit below six, a six, a zero,
\* the colon and a letter, and the boundary examples
TsAlphabet == {"0", "5", "6", ":", "x"}
TimestampStrings ==
  UNION {[1..n -> TsAlphabet] : n \in 0..MaxTsLen}
    \cup {<<"1", "2", ":", "6", "0">>, <<"1", "1", "9", ":", "5", "9">>,
          <<"5", ":", "0", "0">>}

GoodEntry(from, to) == Entry(Str(<<"A">>), Str(from), Str(to), Str(<<"h", "i">>))

TimestampInputs ==
  {Arr(<<GoodEntry(ts, <<"0", ":", "0", "0">>)>>) : ts \in TimestampStrings}
    \cup {Arr(<<GoodEntry(<<"0", ":", "0", "0">>, ts)>>) : ts \in TimestampStrings}

BoundaryExample ==
  Arr(<<GoodEntry(<<"5", ":", "0", "0">>, <<"1", "2", ":", "6", "0">>),
        GoodEntry(<<"1", "2", ":", "6", "0">>, <<"1", "1", "9", ":", "5", "9">>),
        GoodEntry(<<"1", "1", "9", ":", "5", "9">>, <<"5", ":", "0", "0">>)>>)

\* elements a transcript file can hold: a sound entry, values that are no
\* object, entries with a missing, empty or non-string property, a bad
\* timestamp, and a timestamp stored as a one-element array
EntrySamples ==
  LET t0 == Str(<<"0", ":", "0", "5">>)
      t1 == Str(<<"0", ":", "5", "6">>)
      who == Str(<<"A">>)
      said == Str(<<"h", "i">>)
      boxed == Arr(<<Str(<<"5", ":", "0", "0">>)>>)
  IN {Entry(who, t0, t1, said),
      Num(70), Null, Str(<<"x">>),
      Entry(Absent, t0, t1, said),
      Entry(who, t0, t1, Str(<<>>)),
      Entry(who, Str(<<"1", "2", ":", "6", "0">>), t1, said),
      Entry(who, Num(50), t1, said),
      Entry(who, boxed, t1, said),
      Entry(who, t0, boxed, said)}

SampleArrays == {Arr(a) : a \in UNION {[1..n -> EntrySamples] : n \in 0..MaxEntries}}

TranscriptInputs ==
  {[k |-> "validateTranscriptData", data |-> d] :
     d \in TimestampInputs \cup SampleArrays
            \cup {BoundaryExample, Null, Num(10), Str(<<>>), GoodEntry(<<>>, <<>>)}}

IdValues == {Absent, Null, Num(0), Num(10), Num(15), Str(<<"1">>)}
TitleValues == {Absent, Str(<<>>), Str(<<"T">>), Num(10)}
OptionalValues == {Absent, Null, Num(170), Str(<<>>), Str(<<"x">>)}

EpisodeObjects ==
  {Obj([id |-> i, title |-> t, datePublished |-> p, dateCrawled |-> c,
        duration |-> d, episode |-> n]) :
     i \in IdValues, t \in TitleValues, p \in OptionalValues, c \in OptionalValues,
     d \in OptionalValues, n \in OptionalValues}

EpisodeInputs ==
  {[k |-> "validateEpisodeData", data |-> d] :
     d \in EpisodeObjects \cup {Absent, Null, Num(10), Str(<<"x">>), Arr(<<>>)}}

LoadInputs == {[k |-> "load", loader |-> l, file |-> f] : l \in Loaders, f \in FileStates}

TitleInputs ==
  {[k |-> "sanitize", title |-> t] : t \in UNION {[1..n -> TitleAlphabet] : n \in 0..MaxTitleLen}}

\* diarization segments: two speakers taking turns, a start on a whole or a
\* half second, an end a minute and a second later
SegmentInputs ==
  {[k |-> "segment", speaker |-> sec % 2, start |-> 10 * sec + frac,
    end |-> 10 * sec + frac + 610] :
     sec \in 0..MaxSeconds, frac \in {0, 5}}

\* whole transcript segments: two speakers, an early and a late remark
SegmentValues ==
  {[speaker |-> sp, timestampFrom |-> said[1], timestampTo |-> "9:59", content |-> said[2]] :
     sp \in {"Speaker 0", "Speaker 1"}, said \in {<<"0:05", "hi">>, <<"1:10", "well">>}}

LabelInputs ==
  UNION {{[k |-> "labelTranscript", entries |-> en, resp |-> r] :
            r \in AllResponses({en[i].speaker : i \in DOMAIN en})}
           : en \in UNION {[1..n -> SegmentValues] : n \in 0..MaxSegs}}

PureInputs ==
  IdentifyInputs \cup TranscriptInputs \cup EpisodeInputs \cup LoadInputs \cup TitleInputs
    \cup SegmentInputs \cup LabelInputs

\* a function of the scripts called on its own: the data root plays no part
InitPure ==
  /\ meta = [e \in Episodes |-> FALSE]
  /\ audio = [e \in Episodes |-> FALSE]
  /\ transcript = [e \in Episodes |-> NoFile]
  /\ labeled = [e \in Episodes |-> NoFile]
  /\ qa = [e \in Episodes |-> FALSE]
  /\ failLog = [l \in Logs |-> [e \in Episodes |-> 0]]
  /\ dbEpisodes = <<>>
  /\ dbSegments = <<>>
  /\ Idle
  /\ deleted = 0
  /\ silent = {}
  /\ omitted = {}
  /\ shape = FullShape
  /\ vInput \in PureInputs
  /\ vResult = NoCall
  /\ Intact

NextPure ==
  \/ IdentifySpeakersCall \/ ValidateTranscriptCall \/ ValidateEpisodeCall
  \/ LoadCall
  \/ SanitizeCall
  \/ TranscribeSegmentCall
  \/ LabelTranscriptCall

SpecPure == InitPure /\ [][NextPure]_vars

\* the file stages in an environment where one credential is not set
InitCreds ==
  /\ meta = [e \in Episodes |-> FALSE]
  /\ audio = [e \in Episodes |-> FALSE]
  /\ transcript = [e \in Episodes |-> NoFile]
  /\ labeled = [e \in Episodes |-> NoFile]
  /\ qa = [e \in Episodes |-> FALSE]
  /\ failLog = [l \in Logs |-> [e \in Episodes |-> 0]]
  /\ dbEpisodes = <<>>
  /\ dbSegments = <<>>
  /\ Idle
  /\ deleted = 0
  /\ \E w \in Worlds : silent = w[1] /\ omitted = w[2]
  /\ shape = FullShape
  /\ AtRest
  /\ \E c \in Credentials : missing = {c}
  /\ partial = {}
  /\ inFlight = 0

NextCreds == Next \/ MissingCredentialExit \/ FailedGone

SpecCreds == InitCreds /\ [][NextCreds]_vars

\* the file stages with a process that can be killed while it writes
NextCrash ==
  \/ FetchStart \/ DownloadEpisode \/ FetchExit
  \/ TranscribeStart \/ TranscribeIteration \/ TranscribeExit
  \/ LabelRun
  \/ Finish
  \/ DownloadKilled \/ TranscribeKilled \/ LabelKilled

SpecCrash == Init /\ [][NextCrash]_vars

\* persistence over labeled transcripts: every episode fetched and transcribed,
\* some labeled, nothing stored yet
InitPersist ==
  /\ silent = {}
  /\ omitted \in OmittedChoices
  /\ shape = FullShape
  /\ AtRest
  /\ Intact
  /\ meta = [e \in Episodes |-> TRUE]
  /\ audio = [e \in Episodes |-> TRUE]
  /\ transcript = [e \in Episodes |-> File(Speech)]
  /\ labeled \in [Episodes -> {NoFile} \cup {File(c) : c \in LabeledContents}]
  /\ qa = [e \in Episodes |-> FALSE]
  /\ failLog = [l \in Logs |-> [e \in Episodes |-> 0]]
  /\ dbEpisodes = <<>>
  /\ dbSegments = <<>>
  /\ Idle
  /\ deleted = 0

NextPersist ==
  \/ PersistStart \/ InsertItem \/ PersistExit
  \/ LabelRun
  \/ Finish

SpecPersist == InitPersist /\ [][NextPersist]_vars

\* a labeled transcript somebody emptied a speaker in
BadLabeled == <<[speaker |-> "", labeledSpeaker |-> UnknownSpeaker]>>

\* persistence over a data root with damaged items: metadata files missing,
\* unparseable, without a title or without a publication date, and labeled
\* transcripts that do not validate
InitValidate ==
  /\ silent = {}
  /\ omitted = {}
  /\ shape \in [Episodes -> MetaShapes]
  /\ AtRest
  /\ Intact
  /\ meta \in [Episodes -> BOOLEAN]
  /\ audio = meta
  /\ transcript = [e \in Episodes |-> File(Speech)]
  /\ labeled \in [Episodes -> {NoFile, File(BadLabeled),
                                File(LabelSegments(Speech, IdentifySpeakers(Speech, FailedCall)))}]
  /\ qa = [e \in Episodes |-> FALSE]
  /\ failLog = [l \in Logs |-> [e \in Episodes |-> 0]]
  /\ dbEpisodes = <<>>
  /\ dbSegments = <<>>
  /\ Idle
  /\ deleted = 0

NextValidate == PersistStart \/ InsertItem \/ PersistExit \/ Finish

SpecValidate == InitValidate /\ [][NextValidate]_vars

\* a transcript file somebody emptied a speaker in
BadTranscript == <<"">>

\* labeling and persistence over a data root whose transcript files and labeled
\* transcript files may have been edited by hand: each is absent, as the
\* pipeline wrote it, or holds an entry with an empty speaker
InitGuard ==
  /\ silent = {}
  /\ omitted = {}
  /\ shape = FullShape
  /\ AtRest
  /\ Intact
  /\ meta = [e \in Episodes |-> TRUE]
  /\ audio = meta
  /\ transcript \in [Episodes -> {NoFile, File(Speech), File(BadTranscript)}]
  /\ labeled \in [Episodes -> {NoFile, File(BadLabeled),
                                File(LabelSegments(Speech, IdentifySpeakers(Speech, FailedCall)))}]
  /\ qa = [e \in Episodes |-> FALSE]
  /\ failLog = [l \in Logs |-> [e \in Episodes |-> 0]]
  /\ dbEpisodes = <<>>
  /\ dbSegments = <<>>
  /\ Idle
  /\ deleted = 0

NextGuard == LabelRun \/ PersistStart \/ InsertItem \/ PersistExit \/ Finish

SpecGuard == InitGuard /\ [][NextGuard]_vars

\* what a metadata file holds after a field was removed by hand
EditedShapes == {"noDate", "noTitle"}

\* the stages that write to the data root, over a root in which the metadata
\* file of episode 1 was edited by hand after an earlier fetch: its audio is
\* not downloaded yet, and the provider still returns its full record for
\* every episode
InitEdited ==
  /\ silent = {}
  /\ omitted = {}
  /\ AtRest
  /\ Intact
  /\ meta = [e \in Episodes |-> e = 1]
  /\ \E sh \in EditedShapes : shape = [FullShape EXCEPT ![1] = sh]
  /\ audio = [e \in Episodes |-> FALSE]
  /\ transcript = [e \in Episodes |-> NoFile]
  /\ labeled = [e \in Episodes |-> NoFile]
  /\ qa = [e \in Episodes |-> FALSE]
  /\ failLog = [l \in Logs |-> [e \in Episodes |-> 0]]
  /\ dbEpisodes = <<>>
  /\ dbSegments = <<>>
  /\ Idle
  /\ deleted = 0

NextEdited ==
  \/ FetchStart \/ DownloadEpisode \/ FetchExit
  \/ TranscribeStart \/ TranscribeIteration \/ TranscribeExit
  \/ LabelRun
  \/ QARun
  \/ Finish

SpecEdited == InitEdited /\ [][NextEdited]_vars

\* fetch, transcription and persistence await by await, over an empty data
\* root and over one in which every episode went through the pipeline
InitAwait ==
  /\ silent = {}
  /\ omitted = {}
  /\ shape = FullShape
  /\ AtRest
  /\ Intact
  /\ \E complete \in BOOLEAN :
       /\ meta = [e \in Episodes |-> complete]
       /\ audio = [e \in Episodes |-> complete]
       /\ transcript = [e \in Episodes |-> IF complete THEN File(Speech) ELSE NoFile]
       /\ labeled = [e \in Episodes |->
                       IF complete
                       THEN File(LabelSegments(Speech, [t \in Range(Speech) |-> NameOf(t)]))
                       ELSE NoFile]
  /\ qa = [e \in Episodes |-> FALSE]
  /\ failLog = [l \in Logs |-> [e \in Episodes |-> 0]]
  /\ dbEpisodes = <<>>
  /\ dbSegments = <<>>
  /\ Idle
  /\ deleted = 0

NextAwait ==
  \/ FetchStart \/ DownloadEpisodeLocal \/ DownloadEpisodeCall \/ DownloadEpisodeSettled
  \/ FetchExit
  \/ TranscribeStart \/ EnterDirectory \/ DirectoryStep \/ TranscribeCall
  \/ TranscribeSettled \/ TranscribeExit
  \/ PersistStart \/ InsertCall \/ InsertSettled \/ PersistExit
  \/ Finish

SpecAwait == InitAwait /\ [][NextAwait]_vars

\* runs of the budgeted transcription script, await by await, over every data
\* root: any set of metadata files, any set of transcripts, with or without
\* the Q&A artifacts
InitRoots ==
  /\ silent = {}
  /\ omitted = {}
  /\ shape = FullShape
  /\ AtRest
  /\ Intact
  /\ meta \in [Episodes -> BOOLEAN]
  /\ audio = meta
  /\ \E T \in SUBSET Episodes :
       transcript = [e \in Episodes |-> IF e \in T THEN File(Speech) ELSE NoFile]
  /\ labeled = [e \in Episodes |-> NoFile]
  /\ \E q \in BOOLEAN : qa = [e \in Episodes |-> q /\ meta[e]]
  /\ failLog = [l \in Logs |-> [e \in Episodes |-> 0]]
  /\ dbEpisodes = <<>>
  /\ dbSegments = <<>>
  /\ Idle
  /\ deleted = 0

NextTerminate ==
  \/ TranscribeStart \/ EnterDirectory \/ DirectoryStep \/ TranscribeCall
  \/ TranscribeSettled \/ TranscribeExit
  \/ Finish

\* a started run is never left standing: the event loop runs each
\* continuation that is ready, and every call to the service settles (it
\* resolves or rejects).  Starting a run is the operator's choice.
SpecTerminate ==
  /\ InitRoots /\ [][NextTerminate]_vars
  /\ WF_vars(EnterDirectory) /\ WF_vars(DirectoryStep) /\ WF_vars(TranscribeCall)
  /\ WF_vars(TranscribeSettled) /\ WF_vars(TranscribeExit)

\* what a persistence run without database errors leaves
RECURSIVE InsertAll(_, _, _, _)
InsertAll(items, dbE, dbS, lb) ==
  IF items = <<>> THEN [eps |-> dbE, segs |-> dbS]
  ELSE LET r == InsertOne(Head(items), "ok", dbE, dbS, lb[Head(items)].data)
       IN InsertAll(Tail(items), r.eps, r.segs, lb)

\* the state a completed pipeline leaves: every episode has metadata, transcript
\* and labeled transcript and is stored; the audio download of one episode may
\* have failed and left its line in failed_downloads.txt
InitResume ==
  /\ silent = {}
  /\ omitted \in OmittedChoices
  /\ shape = FullShape
  /\ AtRest
  /\ Intact
  /\ meta = [e \in Episodes |-> TRUE]
  /\ \E miss \in Episodes \cup {0} :
       /\ audio = [e \in Episodes |-> e # miss]
       /\ failLog = [l \in Logs |->
                      [e \in Episodes |-> IF l = FetchLog /\ e = miss THEN 1 ELSE 0]]
  /\ transcript = [e \in Episodes |-> File(Speech)]
  /\ \E c \in LabeledContents :
       labeled = [e \in Episodes |->
                    IF e = 2 THEN File(c)
                    ELSE File(LabelSegments(Speech, [t \in Range(Speech) |-> NameOf(t)]))]
  /\ \E withQA \in BOOLEAN : qa = [e \in Episodes |-> withQA /\ e = 1]
  /\ LET r == InsertAll(ValidateFiles(meta, transcript, labeled, qa), <<>>, <<>>, labeled)
     IN dbEpisodes = r.eps /\ dbSegments = r.segs
  /\ Idle
  /\ deleted = 0

NextResume ==
  \/ DeleteLabeled
  \/ FetchStart \/ DownloadEpisode \/ FetchExit
  \/ TranscribeStart \/ TranscribeIteration \/ TranscribeExit
  \/ LabelRun
  \/ PersistStart \/ InsertItem \/ PersistExit
  \/ Finish

SpecResume == InitResume /\ [][NextResume]_vars

\* ------------------------------------------------------------------ claims
\* the script a step belongs to
ActingStage == IF stage = "idle" THEN stage' ELSE stage

Persisted(e) == ExistingRows(dbEpisodes, String(EpId[e])) # {}

InsertItemStep ==
  stage = "persist" /\ pc = "running" /\ queue # <<>> /\ queue' = Tail(queue)

\* C1: when insertData processes a validated item whose String(episode.id) is
\* the externalId of a stored episode row, the episode and segment row counts
\* are the same after the item as before it.
C1_SkipExistingEpisode ==
  [][(InsertItemStep /\ Persisted(Head(queue)))
       => (Len(dbEpisodes') = Len(dbEpisodes) /\ Len(dbSegments') = Len(dbSegments))]_vars

\* a finished persistence run that inserted episode 1 and skipped episode 3,
\* the same episode id found again in the same batch
C1_Witness ==
  /\ stage = "persist" /\ pc = "done"
  /\ <<"row", 1>> \in written
  /\ labeled[3].present /\ meta[3] /\ 3 \notin invoked
  /\ Persisted(3)

AllComplete ==
  \A e \in Episodes :
    /\ meta[e] /\ audio[e]
    /\ transcript[e].present
    /\ labeled[e].present
    /\ Persisted(e)

RelabelsOnlyDeleted ==
  /\ (ActingStage = "transcribe" => invoked' \ invoked = {})
  /\ (ActingStage = "label" => invoked' \ invoked \subseteq {deleted})
  /\ (stage = "idle" /\ stage' = "label" /\ ~labeled[deleted].present
        => invoked' = {deleted} /\ labeled'[deleted].present)
  /\ \A w \in written' \ written : w[2] = deleted
  /\ UNCHANGED db

AllAudio == \A e \in Episodes : audio[e]

C4_ArtifactOrder ==
  \A e \in Episodes :
    /\ labeled[e].present => transcript[e].present
    /\ transcript[e].present => meta[e]
    /\ qa[e] => labeled[e].present

\* an episode went through every file stage although a transform had failed
C4_Witness ==
  /\ \E e \in Episodes : qa[e] /\ labeled[e].present /\ transcript[e].present /\ meta[e]
  /\ TotalLines(failLog) > 0
  /\ \E e \in Episodes : ~meta[e]

TranscriptionStages == {"transcribe", "transcribeOld"}

\* C5: a transcription script never calls the diarization service for, and
\* never writes the transcript of, an episode whose transcript exists when the
\* episode is considered.
C5_NoRetranscription ==
  [][\A e \in Episodes :
       (ActingStage \in TranscriptionStages /\ transcript[e].present)
         => /\ e \notin invoked' \ invoked
            /\ <<"transcript", e>> \notin written' \ written]_vars

WithMetadata == {e \in Episodes : meta[e]}

\* the episodes the finished transcription run found without a transcript
EligibleAtStart ==
  {e \in WithMetadata : ~transcript[e].present \/ <<"transcript", e>> \in written}

\* C6: after a run in which the transform of exactly one item threw and the
\* budget covers the batch, every other item has its output artifact and the
\* failing item has a line in the stage's failure log.
C6_BatchIsolation ==
  /\ (stage = "transcribe" /\ pc = "done" /\ Cardinality(threw) = 1
        /\ numPodcasts >= Cardinality(EligibleAtStart))
       => /\ \A e \in WithMetadata \ threw : transcript[e].present
          /\ \A e \in threw : failLog[TranscribeLog][e] >= 1
  /\ (stage = "fetch" /\ pc = "done" /\ Cardinality(threw) = 1)
       => /\ \A e \in invoked \ threw : meta[e] /\ audio[e]
          /\ \A e \in threw : failLog[FetchLog][e] >= 1

Labelable(e) == meta[e] /\ transcript[e].present /\ Len(transcript[e].data) > 0

\* C7: under repeated labeling runs, every transcript with readable metadata
\* and at least one segment eventually has its labeled transcript, whatever
\* the state of the other items.
C7_LabelingNotBlocked ==
  \A e \in Episodes : [](Labelable(e) => <>(labeled[e].present))

LogOf(st) ==
  IF st = "fetch" THEN FetchLog
  ELSE IF st = "label" THEN LabelLog
  ELSE TranscribeLog

NewlyFailed == threw' \ threw

\* the loop goes on after the failure
GoesOn ==
  /\ (ActingStage = "fetch" => pc' = "running" /\ queue' = Tail(queue))
  /\ (ActingStage = "transcribe" => pc' = "running" /\ currentIndex' = currentIndex + 1)
  /\ (ActingStage = "transcribeOld" => pc' = "running" /\ queue' = Tail(queue))
  /\ (ActingStage = "label" => pc' = "done")

\* C8: in the fetch, transcription and labeling scripts a failed remote call
\* appends exactly one line naming the item to the stage's failure log, and
\* the run goes on.
C8_FailureLogged ==
  [][\A e \in Episodes :
       (e \in NewlyFailed /\ ActingStage \in {"fetch", "transcribe", "transcribeOld", "label"})
         => /\ failLog'[LogOf(ActingStage)][e] = failLog[LogOf(ActingStage)][e] + 1
            /\ GoesOn]_vars

TranscriptsWritten == {w \in written : w[1] = "transcript"}

\* C9: in a run of a transcription script with budget N, at most N transcripts
\* are written.
C9_BudgetBound ==
  stage \in TranscriptionStages => Cardinality(TranscriptsWritten) <= numPodcasts

\* C10: in the budgeted transcription script the processed count grows exactly
\* by the transcripts written, and an iteration that wrote none leaves the count
\* alone and moves to the next entry of the data folder.
C10_BudgetCountsSuccesses ==
  [][(stage = "transcribe" /\ pc = "running" /\ stage' = "transcribe")
       => /\ processedCount' - processedCount = Cardinality(written' \ written)
          /\ processedCount' <= numPodcasts
          /\ (pc' = "running" /\ written' = written)
               => /\ processedCount' = processedCount
                  /\ currentIndex' = currentIndex + 1
                  /\ numPodcasts' = numPodcasts]_vars

\* budget 1: the first directory's only attempt failed, the stray file was
\* passed, and the transcript came from the last directory
C10_Witness ==
  /\ stage = "transcribe" /\ pc = "done"
  /\ numPodcasts = 1
  /\ threw = {1}
  /\ written = {<<"transcript", 3>>}
  /\ processedCount = 1
  /\ currentIndex = Len(RootEntries)

\* an episode the budgeted run can still work on: metadata, no transcript, not
\* attempted in this run
EligibleIn(tr, inv, e) == meta[e] /\ ~tr[e].present /\ e \notin inv

\* C11: the budgeted run leaves a podcast directory for the next one, with
\* budget remaining, only when the directory has no eligible episode left.
C11_StaysWhileEligible ==
  [][(stage = "transcribe" /\ pc = "running" /\ currentIndex' = currentIndex + 1
        /\ processedCount' < numPodcasts)
       => \A e \in Episodes :
            EpDir[e] = RootListing(meta)[currentIndex + 1]
              => ~EligibleIn(transcript', invoked', e)]_vars

\* C12: a budgeted run ends only with N transcriptions completed or with every
\* eligible episode under the data root attempted in the run.
C12_EndsOnBudgetOrExhaustion ==
  (stage = "transcribe" /\ pc = "done")
    => \/ processedCount = numPodcasts
       \/ \A e \in Episodes : ~EligibleIn(transcript, invoked, e)

\* C13: whatever the labeling model answered (a complete, partial or empty
\* mapping, empty-string values, unparseable or empty text, a failed call), the
\* mapping identifySpeakers returns has a non-empty entry for every distinct
\* speaker token of the transcript.
C13_EverySpeakerMapped ==
  vResult.k = "mapping"
    => \A t \in Range(vInput.segs) : t \in DOMAIN vResult.map /\ vResult.map[t] # ""

\* identifySpeakers has returned for a two-speaker transcript whose answer left
\* one speaker out and named the other with the empty string
C13_Witness ==
  /\ vResult.k = "mapping"
  /\ Cardinality(Range(vInput.segs)) = 2
  /\ vInput.resp.ok
  /\ Cardinality(DOMAIN vInput.resp.map) = 1
  /\ \E t \in DOMAIN vInput.resp.map : vInput.resp.map[t] = ""

\* C14: when the labeling model's answer leaves some speaker tokens out, the
\* labeling run still writes the labeled transcript, labels every segment of
\* an omitted token "Unknown Speaker", keeps the returned label for every
\* other token, and appends nothing to failed_labeling.txt.
C14_OmittedTokensDefaulted ==
  [][(pc = "idle" /\ stage' = "label" /\ invoked' # {} /\ threw' = {} /\ omitted # {})
       => /\ failLog' = failLog
          /\ \A e \in invoked' :
               /\ ~labeled[e].present
               /\ labeled'[e].present
               /\ Len(labeled'[e].data) = Len(transcript[e].data)
               /\ \A i \in DOMAIN transcript[e].data :
                    LET t == transcript[e].data[i] IN
                      /\ labeled'[e].data[i].speaker = t
                      /\ labeled'[e].data[i].labeledSpeaker =
                           IF t \in omitted THEN UnknownSpeaker ELSE NameOf(t)]_vars

\* a labeling run whose answer left "Speaker 1" out has written a transcript
\* with an "Unknown Speaker" segment next to a named one
C14_Witness ==
  /\ stage = "label" /\ pc = "done" /\ threw = {} /\ omitted # {}
  /\ \E e \in invoked :
       /\ labeled[e].present
       /\ \E i, j \in DOMAIN labeled[e].data :
            /\ transcript[e].data[i] \in omitted
            /\ labeled[e].data[i].labeledSpeaker = UnknownSpeaker
            /\ transcript[e].data[j] \notin omitted
            /\ labeled[e].data[j].labeledSpeaker = NameOf(transcript[e].data[j])

\* a timestamp as the specification words it: one or more digits, a colon, two
\* digits whose value is below 60
WellFormedTimestamp(s) ==
  \E n \in 1..Len(s) :
    /\ Len(s) = n + 3
    /\ \A i \in 1..n : s[i] \in Digits
    /\ s[n + 1] = ":"
    /\ s[n + 2] \in Digits
    /\ s[n + 3] \in Digits
    /\ 10 * DigitValue(s[n + 2]) + DigitValue(s[n + 3]) < 60

NonEmptyString(x) == x.k = "string" /\ x.v # <<>>

MalformedEntry(entry) ==
  \/ entry.k # "object"
  \/ \E f \in {"speaker", "timestampFrom", "timestampTo", "content"} :
       ~NonEmptyString(Get(entry, f))
  \/ \E f \in {"timestampFrom", "timestampTo"} : ~WellFormedTimestamp(Get(entry, f).v)

\* C15: for any array input, validateTranscriptData's error list holds at
\* least one message carrying the index i for every malformed element i (no
\* object; a missing, empty or non-string speaker, timestampFrom, timestampTo
\* or content; a bad timestamp): it does not stop at the first one.
C15_EveryMalformedIndexed ==
  (vInput.k = "validateTranscriptData" /\ vResult # NoCall /\ vInput.data.k = "array")
    => \A i \in DOMAIN vInput.data.v :
         MalformedEntry(vInput.data.v[i])
           => /\ vResult.k = "result"
              /\ \E j \in DOMAIN vResult.errors : vResult.errors[j].index = i - 1

\* C16: a timestamp string is accepted, as timestampFrom and as timestampTo
\* alike, exactly when it is one or more digits, a colon and exactly two
\* digits whose value is below 60.
C16_TimestampAcceptance ==
  (vInput.k = "validateTranscriptData" /\ vResult.k = "result" /\ vInput.data.k = "array")
    => \A i \in DOMAIN vInput.data.v : \A f \in {"timestampFrom", "timestampTo"} :
         LET ts == Get(vInput.data.v[i], f) IN
         NonEmptyString(ts)
           => (WellFormedTimestamp(ts.v)
                 <=> ~\E j \in DOMAIN vResult.errors :
                        vResult.errors[j].index = i - 1 /\ vResult.errors[j].field = f)

\* the boundary examples have been validated: "12:60" is refused in both
\* places, "5:00" and "119:59" pass in both
C16_Witness ==
  /\ vInput.k = "validateTranscriptData"
  /\ vInput.data = BoundaryExample
  /\ vResult.k = "result"
  /\ vResult.errors = <<EntryError(0, "timestampTo", "seconds"),
                        EntryError(1, "timestampFrom", "seconds")>>

WellTypedEpisode(d) ==
  /\ d.k = "object"
  /\ Get(d, "id").k = "number" /\ Get(d, "id").v % 10 = 0
  /\ NonEmptyString(Get(d, "title"))
  /\ \A f \in {"datePublished", "dateCrawled", "duration", "episode"} :
       Get(d, f).k \in {"undefined", "null", "number"}

\* C17: validateEpisodeData returns isValid = true exactly when id is an
\* integer, title is a non-empty string, and each of datePublished,
\* dateCrawled, duration and episode that is present is a number.
C17_ValidExactlyWhenWellTyped ==
  (vInput.k = "validateEpisodeData" /\ vResult.k = "result")
    => (vResult.isValid <=> WellTypedEpisode(vInput.data))

\* C18: every call of validateEpisodeData and of validateTranscriptData
\* returns a result in which isValid is true exactly when the error list is
\* empty, data is present exactly when isValid is true, and an invalid result
\* carries at least one error.
C18_ResultConsistent ==
  (vInput.k \in {"validateEpisodeData", "validateTranscriptData"} /\ vResult # NoCall)
    => /\ vResult.k = "result"
       /\ vResult.isValid <=> Len(vResult.errors) = 0
       /\ vResult.isValid <=> vResult.data # Absent
       /\ ~vResult.isValid => Len(vResult.errors) >= 1

\* the items of a run that are valid: the metadata file exists and parses, and
\* episode and transcript pass their validators
ValidItems ==
  {e \in Episodes :
     /\ labeled[e].present /\ meta[e] /\ shape[e] # "corrupt"
     /\ ValidateEpisodeData(MetaJson(e)).isValid
     /\ ValidateTranscriptData(TranscriptJson(labeled[e].data)).k = "result"
     /\ ValidateTranscriptData(TranscriptJson(labeled[e].data)).isValid}

\* C19: a persistence run leaves out of the validated list every item whose
\* metadata file is missing or unparseable or whose episode or transcript
\* fails validation, and never inserts it; every valid item of the run is
\* validated and goes on to the insert; an insert error for one episode does
\* not keep the later ones from their insert.
C19_InvalidSkippedValidKept ==
  [][/\ (pc = "idle" /\ stage' = "persist") => Range(queue') = ValidItems
     /\ (stage = "persist" /\ pc = "running" /\ queue # <<>>)
          => /\ Head(queue) \in ValidItems
             /\ invoked' \ invoked \subseteq {Head(queue)}
             /\ queue' = Tail(queue)
             /\ pc' = "running"]_vars

\* C20: whatever persistence runs have happened, a run whose validated list
\* holds the same episode id twice included, storage holds at most one episode
\* row per externalId.
C20_OneRowPerExternalId ==
  \A i, j \in DOMAIN dbEpisodes : dbEpisodes[i] = dbEpisodes[j] => i = j

\* a run that validated two items with the same id has ended: the first was
\* inserted, the second was skipped, and one row carries the id
C20_Witness ==
  /\ stage = "persist" /\ pc = "done"
  /\ \E a, b \in Episodes :
       /\ a # b /\ EpId[a] = EpId[b]
       /\ labeled[a].present /\ labeled[b].present
       /\ a \in invoked /\ b \notin invoked /\ threw = {}
       /\ Cardinality({i \in DOMAIN dbEpisodes : dbEpisodes[i] = String(EpId[a])}) = 1

\* C21: after any persistence run, one whose segment batch insert failed
\* after the episode insert included, storage never holds the episode row of
\* an item with a non-empty transcript without that item's segment rows.
C21_RowWithItsSegments ==
  \A i \in DOMAIN dbEpisodes :
    (\E e \in Episodes :
       /\ String(EpId[e]) = dbEpisodes[i]
       /\ labeled[e].present /\ Len(labeled[e].data) > 0)
      => \E j \in DOMAIN dbSegments : dbSegments[j].episodeId = i

\* C22: a process terminated at any point of a stage leaves no artifact
\* present with incomplete content, so no later run skips an episode because
\* of a truncated artifact.
C22_NoTruncatedArtifact ==
  /\ pc = "idle" => partial = {}
  /\ (stage = "fetch" /\ pc = "running" /\ queue # <<>>
        /\ AlreadyDownloaded(meta, audio, Head(queue)))
       => <<"audio", Head(queue)>> \notin partial

\* C23: when an existing metadata or transcript artifact cannot be parsed as
\* JSON, the loader gives its caller an outcome that differs from the one it
\* gives for an absent file.
C23_CorruptDistinctFromAbsent ==
  (vInput.k = "load" /\ vInput.file = "corrupt" /\ vResult.k = "loaded")
    => vResult.value # Load(vInput.loader, "absent").value

\* C24: a script started while a credential it requires is missing exits
\* with a failure status before any remote call, artifact write or
\* failure-log append.
C24_MissingCredentialIsFatal ==
  [][(stage' \in Scripts /\ RequiredBy(stage') \cap missing # {})
       => (pc' = "failed" /\ UNCHANGED <<store, db, hist>>)]_vars

\* the transcription script has exited with a failure status although a
\* fetched episode was waiting for its transcript
C24_Witness ==
  /\ stage = "transcribe" /\ pc = "failed"
  /\ "REPLICATE_API_KEY" \in missing
  /\ \E e \in Episodes : meta[e] /\ audio[e] /\ ~transcript[e].present

\* C25: in the stages whose transform calls a remote service (audio fetch,
\* diarization) a delay follows each item, so no two consecutive items'
\* remote calls are issued without a delay between them.
C25_DelayBetweenRemoteCalls ==
  stage \in {"fetch", "transcribe", "transcribeOld"} => sinceDelay <= 1

\* the title lowercased, every maximal run of non-alphanumeric characters
\* replaced by one underscore
RECURSIVE CollapsedTitle(_, _)
CollapsedTitle(title, inRun) ==
  IF title = <<>> THEN <<>>
  ELSE IF IsAlphanumeric(Head(title))
       THEN <<ToLowerCase(Head(title))>> \o CollapsedTitle(Tail(title), FALSE)
       ELSE (IF inRun THEN <<>> ELSE <<"_">>) \o CollapsedTitle(Tail(title), TRUE)

\* C26: the directory name computed for a feed title is the title lowercased
\* with every maximal run of non-alphanumeric characters replaced by a single
\* underscore.
C26_RunsCollapsed ==
  (vInput.k = "sanitize" /\ vResult.k = "directory")
    => vResult.name = CollapsedTitle(vInput.title, FALSE)

\* ts reads MM:SS for the whole number of seconds secs
IsMinutesSeconds(ts, secs) ==
  LET parts == Split(ts)
  IN /\ Len(parts) = 2
     /\ \A p \in 1..2 : \A i \in DOMAIN parts[p] : parts[p][i] \in Digits
     /\ Len(parts[1]) >= 2
     /\ Len(parts[1]) > 2 => parts[1][1] # "0"
     /\ DigitsValue(parts[1]) = secs \div 60
     /\ Len(parts[2]) = 2
     /\ DigitsValue(parts[2]) = secs % 60
     /\ DigitsValue(parts[2]) < 60
     /\ 60 * DigitsValue(parts[1]) + DigitsValue(parts[2]) = secs

\* C27: for a diarization segment with integer speaker n and whole-second
\* start and end, the transcription emits the speaker "Speaker n" and
\* timestamps MM:SS with MM the whole minutes padded to at least two digits,
\* SS the two-digit remainder below 60, and 60 * MM + SS the seconds.
C27_SegmentFormatted ==
  (vInput.k = "segment" /\ vResult.k = "transcribed"
     /\ vInput.start % 10 = 0 /\ vInput.end % 10 = 0)
    => /\ Len(vResult.value.speaker) > 8
       /\ SubSeq(vResult.value.speaker, 1, 8) = <<"S", "p", "e", "a", "k", "e", "r", " ">>
       /\ NumberOf(SubSeq(vResult.value.speaker, 9, Len(vResult.value.speaker)))
            = [nan |-> FALSE, n |-> vInput.speaker]
       /\ IsMinutesSeconds(vResult.value.timestampFrom, vInput.start \div 10)
       /\ IsMinutesSeconds(vResult.value.timestampTo, vInput.end \div 10)

\* a segment an hour and forty minutes in, ending in the next minute
C27_Witness ==
  /\ vInput.k = "segment" /\ vResult.k = "transcribed"
  /\ vInput.speaker = 0 /\ vInput.start = 60000 /\ vInput.end = 60610
  /\ vResult.value.timestampFrom = <<"1", "0", "0", ":", "0", "0">>
  /\ vResult.value.timestampTo = <<"1", "0", "1", ":", "0", "1">>

\* C28: a transcript artifact exists for an episode only if both its metadata
\* artifact and its audio artifact exist.
C28_TranscriptNeedsMetadataAndAudio ==
  \A e \in Episodes : transcript[e].present => (meta[e] /\ audio[e])

\* validateTranscriptData applied to the content of a transcript file
TranscriptFileValid(segs) == TranscriptValid([i \in DOMAIN segs |-> [speaker |-> segs[i]]])

\* C29: labeling processes a transcript, and persistence a labeled transcript,
\* only if it passes transcript validation.
C29_OnlyValidatedProcessed ==
  /\ (stage = "label" /\ pc = "done")
       => \A e \in invoked : TranscriptFileValid(transcript[e].data)
  /\ (stage = "persist" /\ pc = "running")
       => \A i \in DOMAIN queue : TranscriptValid(labeled[queue[i]].data)

\* C30: within a single run of a stage the remote transform is invoked at most
\* once per episode; an episode whose transform failed is not attempted again
\* in that run.
C30_AtMostOneAttempt ==
  \A e \in Episodes : attempts[e] <= 1

\* a transcription run in which episode 1's call failed and the run went on
\* to the next file of the directory and transcribed it
C30_Witness ==
  /\ stage = "transcribe" /\ pc = "running"
  /\ 1 \in threw /\ attempts[1] = 1 /\ ~transcript[1].present
  /\ attempts[2] = 1 /\ <<"transcript", 2>> \in written
  /\ currentIndex >= 1

\* C31: an episode whose transcription failed has no transcript artifact when
\* the failing step ends, and a later run of the transcription stage that
\* reaches its directory selects it again, whatever failed_transcriptions.txt
\* says: the run calls the service for it unless an earlier file of the
\* directory was transcribed first and ended the directory's turn.
C31_FailedIsRetried ==
  [][(stage = "transcribe" /\ pc = "running" /\ currentIndex' = currentIndex + 1)
       => \A e \in Episodes :
            /\ (e \in threw' \ threw) => ~transcript'[e].present
            /\ (/\ EpDir[e] = RootListing(meta)[currentIndex + 1]
                /\ failLog[TranscribeLog][e] > 0
                /\ ~transcript[e].present)
                 => \/ e \in invoked' \ invoked
                    \/ \E first \in Episodes :
                         /\ first < e /\ EpDir[first] = EpDir[e]
                         /\ ~transcript[first].present /\ transcript'[first].present]_vars

\* episode 1 is named in failed_transcriptions.txt by an earlier run, and this
\* run has called the service for it again and saved its transcript
C31_Witness ==
  /\ stage = "transcribe" /\ pc = "running"
  /\ failLog[TranscribeLog][1] = 1
  /\ 1 \in invoked /\ 1 \notin threw
  /\ <<"transcript", 1>> \in written /\ transcript[1].present

\* C32: once an episode's metadata artifact exists, no step of a stage run
\* deletes it, changes what it holds or writes it again, also when the fetch
\* finds other field values at the provider than the file holds or only has
\* to download the missing audio.
C32_MetadataImmutable ==
  [][\A e \in Episodes :
       meta[e] => /\ meta'[e]
                  /\ shape'[e] = shape[e]
                  /\ <<"meta", e>> \notin written' \ written]_vars

\* a fetch run has downloaded the missing audio of episode 1, whose metadata
\* file still lacks the title it was edited to lack
C32_Witness ==
  /\ stage = "fetch"
  /\ meta[1] /\ shape[1] = "noTitle"
  /\ audio[1] /\ <<"audio", 1>> \in written /\ <<"meta", 1>> \notin written

\* C33: when the labeling model call fails entirely (call error, empty or
\* unparseable response) the labeling run still writes a labeled transcript
\* with one segment per transcript segment, every labeledSpeaker being
\* "Unknown Speaker", appends nothing to failed_labeling.txt, and every later
\* labeling run leaves an episode that has a labeled transcript alone.
C33_TotalFailureIsSilent ==
  [][(stage = "idle" /\ stage' = "label")
       => /\ \A e \in threw' :
               /\ labeled'[e].present
               /\ Len(labeled'[e].data) = Len(transcript[e].data)
               /\ \A i \in DOMAIN labeled'[e].data :
                    /\ labeled'[e].data[i].speaker = transcript[e].data[i]
                    /\ labeled'[e].data[i].labeledSpeaker = UnknownSpeaker
          /\ failLog' = failLog
          /\ \A e \in Episodes :
               labeled[e].present => (e \notin invoked' /\ labeled'[e] = labeled[e])]_vars

\* the call for episode 1 failed in an earlier run, which left the all-unknown
\* labeled transcript; this run has passed episode 1 over and labeled another
C33_Witness ==
  /\ stage = "label" /\ pc = "done"
  /\ labeled[1].present
  /\ \A i \in DOMAIN labeled[1].data : labeled[1].data[i].labeledSpeaker = UnknownSpeaker
  /\ failLog[LabelLog][1] = 0
  /\ 1 \notin invoked
  /\ \E e \in Episodes \ {1} : e \in invoked /\ e \in threw /\ labeled[e].present

\* C34: the labeled transcript has as many segments as the transcript, in the
\* same order, each with its speaker, timestampFrom, timestampTo and content
\* unchanged, and two segments with the same speaker token carry the same
\* labeledSpeaker.
C34_SegmentsKeptAndConsistent ==
  (vInput.k = "labelTranscript" /\ vResult.k = "labeled")
    => /\ Len(vResult.value) = Len(vInput.entries)
       /\ \A i \in DOMAIN vInput.entries :
            \A field \in {"speaker", "timestampFrom", "timestampTo", "content"} :
              vResult.value[i][field] = vInput.entries[i][field]
       /\ \A i, j \in DOMAIN vResult.value :
            vResult.value[i].speaker = vResult.value[j].speaker
              => vResult.value[i].labeledSpeaker = vResult.value[j].labeledSpeaker

\* two segments of one speaker with different starts and texts, both labeled
\* with the name the model gave
C34_Witness ==
  /\ vInput.k = "labelTranscript" /\ vResult.k = "labeled"
  /\ Len(vResult.value) = 2
  /\ vResult.value[1].speaker = "Speaker 0" /\ vResult.value[2].speaker = "Speaker 0"
  /\ vResult.value[1].timestampFrom = "0:05" /\ vResult.value[2].timestampFrom = "1:10"
  /\ vResult.value[1].content = "hi" /\ vResult.value[2].content = "well"
  /\ vResult.value[1].labeledSpeaker = "Alice" /\ vResult.value[2].labeledSpeaker = "Alice"

\* C35: every segment row references an episode row that is in storage, and
\* segment rows are inserted only in the step of a persistence run that has
\* just inserted their item's episode row, with that row's id.
C35_SegmentsHaveTheirEpisode ==
  [][/\ \A j \in DOMAIN dbSegments' : dbSegments'[j].episodeId \in DOMAIN dbEpisodes'
     /\ dbSegments' # dbSegments
          => /\ stage = "persist" /\ queue # <<>>
             /\ dbEpisodes' = Append(dbEpisodes, String(EpId[Head(queue)]))
             /\ Len(dbSegments') > Len(dbSegments)
             /\ SubSeq(dbSegments', 1, Len(dbSegments)) = dbSegments
             /\ \A j \in (Len(dbSegments) + 1)..Len(dbSegments') :
                  dbSegments'[j].episodeId = Len(dbEpisodes')]_vars

\* two items were stored, each with segment rows under its own episode row
C35_Witness ==
  /\ stage = "persist"
  /\ Len(dbEpisodes) = 2
  /\ \E j, k \in DOMAIN dbSegments :
       dbSegments[j].episodeId = 1 /\ dbSegments[k].episodeId = 2

\* the item's output artifact was written or its failure was recorded
Settled(e) ==
  \/ e \in threw
  \/ \E kind \in {"audio", "transcript", "row"} : <<kind, e>> \in written

\* C36: within a run at most one remote call is in flight; while one is, the
\* caller is suspended on it, and every item whose transform was started
\* before has had its output written or its failure recorded.
C36_OneCallInFlight ==
  /\ inFlight <= 1
  /\ inFlight = 1 => (pc = "awaiting" /\ queue # <<>>
                       /\ \A e \in invoked \ {Head(queue)} : Settled(e))
  /\ inFlight = 0 => \A e \in invoked : Settled(e)

\* the call for episode 2 is in flight after the call for episode 1 failed
\* and its line was appended to failed_transcriptions.txt
C36_Witness ==
  /\ stage = "transcribe" /\ pc = "awaiting" /\ inFlight = 1
  /\ Head(queue) = 2
  /\ 1 \in threw /\ failLog[TranscribeLog][1] = 1

\* the files of directory d whose enclosureUrl the budgeted script, and the
\* older script, would hand to the diarization service
SentFiles(d) ==
  SelectSeq(SelectSeq(DirFiles(meta, transcript, labeled, qa, d), IsMetadataFile),
            HasEnclosureUrl)
SentFilesOld(d) ==
  SelectSeq(SelectSeq(DirFiles(meta, transcript, labeled, qa, d), IsMetadataFileOld),
            HasEnclosureUrl)

C38_TranscriptionTerminates ==
  /\ (stage = "transcribe" /\ pc # "done") ~> (stage = "transcribe" /\ pc = "done")
  /\ [][(stage = "transcribe" /\ stage' = "transcribe")
          => /\ (pc' = "running") => currentIndex' = currentIndex + 1
             /\ (pc' # "running") => currentIndex' = currentIndex
             /\ (pc # "running" /\ pc' \notin {"running", "done"})
                  => Len(queue') <= Len(queue)]_vars

\* a run over the whole data root has returned with budget left: one call
\* failed, nothing else was left to transcribe
C38_Witness ==
  /\ stage = "transcribe" /\ pc = "done"
  /\ currentIndex = Len(RootListing(meta)) /\ currentIndex = 3
  /\ processedCount < numPodcasts
  /\ threw # {}
====
